---- MODULE Spec2Model ----
(***************************************************************************)
(* Apps launcher main process: the install manager, the download manager,  *)
(* the IPC handlers that chain them, the version cache in front of the    *)
(* GitHub release resolver, the launcher, the app list read, the           *)
(* executable locator's directory probe and the update checker.            *)
(*                                                                         *)
(* The main process is single threaded: the code between two awaits (or    *)
(* inside one event callback) runs without interleaving, so each action    *)
(* below is one such run-to-suspension segment.                            *)
(***************************************************************************)
EXTENDS Integers, Sequences, FiniteSets, TLC

\* Catalog identities (apps.json ids) and the callers whose requests can be
\* in flight at the same time (renderer invocations of the IPC channels or
\* direct calls of the exported service singletons).
Apps == {"app1"}
Slots == {"r1", "r2"}

\* ------------------------------------------------------------------------
\* Bounds of the model.
\* ------------------------------------------------------------------------
\* How many redirect answers in a row the download server gives at most.
MaxRedirects == 1
\* The wall clock stops advancing here (milliseconds).
MaxNow == 420000
\* How many child processes the launcher spawns at most.
MaxSpawns == 3
\* longest directory listing a probe is given
MaxFiles == 3
\* update sweeps that record a timestamp
MaxChecks == 2
\* most parts of a version text given to the comparator
MaxParts == 3
\* most assets of a release
MaxAssets == 3
\* most chunks a response body arrives in
MaxChunks == 3
\* most directories the locator searches
MaxDirs == 3
\* the largest maxAttempts a polling call is given
MaxAttempts == 3
\* how often the periodic timer is armed at most
MaxArms == 4

\* ------------------------------------------------------------------------
\* Program constants.
\* ------------------------------------------------------------------------
InstallerMaxAttempts == 10
ZipMaxAttempts == 5
defaultTTL == 300000
fallbackTTL == 60000

\* ------------------------------------------------------------------------
\* Values.
\* ------------------------------------------------------------------------
NoRecord == [none |-> TRUE]
NoTask == [none |-> TRUE]
NoPath == <<>>

\* File extensions of the assets the resolver can choose, and of the files a
\* direct caller can hand to installApp.
AssetExts == {".exe", ".zip"}
InstallerExts == AssetExts \cup {".msi", ".txt"}

\* options.version as a direct caller passes it ("": none), and the version
\* of the release the IPC handler resolves.
OptionVersions == {"2.0.0", ""}
ReleaseVersions == {"2.0.0"}

\* Paths are sequences of components, so that path.dirname is computed.
dirname(p) == IF Len(p) = 0 THEN p ELSE SubSeq(p, 1, Len(p) - 1)

\* settings.installDirectory (the hint handed to the locator and the
\* fallback installPath of a degraded record)
baseInstallDir == <<"home", "AppsLauncher">>
\* app.getPath('appData')/AppsLauncher/<appId>
extractPath(x) == <<"appData", "AppsLauncher", x>>

\* What the executable locator can answer for an identity: an executable the
\* installer put somewhere of its own choosing, or one under the extraction
\* directory.
LocatorPaths(x) == {<<"C:", "Program Files", x, "app.exe">>,
                    extractPath(x) \o <<"app.exe">>}
\* What the user can pick in the manual-selection dialog.
DialogPaths == {<<"D:", "Tools", "tool.exe">>}

\* detectInstallerType
detectInstallerType(ext) ==
  CASE ext = ".exe" -> "exe"
    [] ext = ".msi" -> "msi"
    [] ext = ".zip" -> "zip"
    [] OTHER -> "unknown"

VARIABLES
  activeInstallations,  \* InstallManager.activeInstallations: set of keys
  activeDownloads,      \* DownloadManager.activeDownloads: appId -> task
  storeApps,            \* appStore 'apps.<id>': appId -> AppRecord
  tempFiles,            \* files present in the download temp directory
  slot,                 \* per caller: the operation it runs and its locals
  cache,                \* VersionCacheService.cache: appId -> CacheEntry
  now,                  \* Date.now()
  gv,                   \* per caller: its getLatestVersion call
  runningProcesses,     \* LauncherService.runningProcesses: appId -> entry
  procs,                \* child processes the launcher spawned, by handle
  spawned,              \* how many children the launcher has spawned
  diskFiles,            \* executables present on disk
  lastCall,             \* the launchApp / killApp call made last
  reads,                \* per caller: its enrichAppData call
  probe,                \* one directory probe of findInstalledExecutable
  isChecking,           \* UpdateChecker.isChecking
  lastUpdateCheck,      \* appStore 'lastUpdateCheck': timestamps written
  latest,               \* appId -> version of the latest published release
  sweeps,               \* per caller: its checkForUpdates call
  storeChanged,         \* history: an installed version was written since
                        \* a sweep over apps.json last read the store and
                        \* went through without a failure
  cmp,                  \* one call of compareVersions on two version texts
  rel,                  \* one call of getAppReleaseInfo on a fetched release
  dl,                   \* one downloadFile call with its progress events
  loc,                  \* one findInstalledExecutable call and its search paths
  poll,                 \* one findInstalledExecutableWithPolling call
  scan,                 \* the scanForInstalledApps call of the startup
  walk,                 \* the search paths one locator call goes through
  ticker                \* the periodic timer of the update checker and the settings

installVars == <<activeInstallations, activeDownloads, storeApps, tempFiles, slot>>
cacheVars == <<cache, now, gv>>
launchVars == <<runningProcesses, procs, spawned, diskFiles, lastCall, reads>>
locatorVars == <<probe>>
sweepVars == <<isChecking, lastUpdateCheck, latest, sweeps, storeChanged>>
compareVars == <<cmp>>
\* the calls of the pure functions
resolverVars == <<rel>>
progressVars == <<dl>>
phaseVars == <<loc>>
pollVars == <<poll>>
scanVars == <<scan>>
lateVars == <<walk, ticker>>
otherVars ==
  <<compareVars, resolverVars, progressVars, phaseVars, pollVars, scanVars,
    lateVars>>
vars == <<installVars, cacheVars, launchVars, locatorVars, sweepVars, otherVars>>

\* what an install manager / download manager step leaves alone
notInstallVars == <<cacheVars, launchVars, locatorVars, sweepVars, otherVars>>
\* what a version cache step leaves alone
notCacheVars == <<installVars, launchVars, locatorVars, sweepVars, otherVars>>
\* what a launcher or app list step leaves alone, besides the install state
notLaunchVars == <<cacheVars, locatorVars, sweepVars, otherVars>>

Terminal == {"completed", "error"}

\* ------------------------------------------------------------------------
\* Callers.  A slot record holds the locals of the operation a caller runs:
\*   op        "app:install" | "installApp" | "app:uninstall"
\*   app       the identity
\*   pc        where the operation is suspended
\*   ext       extension of the installer file (installerPath)
\*   version   options.version
\*   url       URL of the transfer under way, redirects: answers followed
\*   attempt   polling attempt of the locator
\*   statusLog the install:status events this call has emitted
\*   outcome   "none" | "ok" | the error the operation ended with
\*   dlEnd     how the transfer of this operation ended
\* ------------------------------------------------------------------------
assetUrl(x, e) == [app |-> x, ext |-> e, hop |-> 0]
AnApp == CHOOSE x \in Apps : TRUE
NoUrl == assetUrl(AnApp, ".exe")

FreshSlot ==
  [op |-> "none", app |-> AnApp, pc |-> "idle", ext |-> ".exe",
   version |-> "", url |-> NoUrl, redirects |-> 0, attempt |-> 0,
   statusLog |-> <<>>, outcome |-> "none", dlEnd |-> "none"]

NewCallPc == {"idle", "done"}
DownloadPc == {"dlWait", "dlStream"}
\* installApp is between its presence check and its return / throw
InstallPc == {"installing", "settle", "polling", "prompt", "zipPolling"}
\* the operation will never run again: it ended, or its promise never settles
EndedPc == {"done", "dlHung", "orphaned"}

\* locals die with the function that owns them
Norm(s) ==
  IF s.pc \in EndedPc
  THEN [s EXCEPT !.ext = ".exe", !.version = "", !.url = NoUrl,
                 !.redirects = 0, !.attempt = 0]
  ELSE IF s.pc \in DownloadPc \cup {"resolving"}
  THEN s
  ELSE [s EXCEPT !.url = NoUrl, !.redirects = 0]

Emit(s, status) == [s EXCEPT !.statusLog = Append(@, status)]
End(s, result) == [s EXCEPT !.pc = "done", !.outcome = result]

\* a caller starts operation o on identity x
Begin(r, o, x, e, v, p) ==
  /\ slot[r].pc \in NewCallPc
  /\ slot' = [slot EXCEPT ![r] =
       [FreshSlot EXCEPT !.op = o, !.app = x, !.pc = p, !.ext = e, !.version = v]]
  /\ UNCHANGED <<activeInstallations, activeDownloads, storeApps, tempFiles>>
  /\ UNCHANGED notInstallVars

\* ------------------------------------------------------------------------
\* Install manager
\* ------------------------------------------------------------------------
\* a faulty presence check that lets every call through
NeverInstalling(active, x) == FALSE

\* the presence check of installApp
AlreadyInstalling(active, x) == x \in active

\* where the caller goes on once installApp has returned
AfterInstall(o) ==
  IF o \in {"app:install", "app:update"} THEN "ipcWait" ELSE "done"

\* the catch block of installApp: [active, slot] after it
InstallFail(s, active, err) ==
  [active |-> active \ {s.app},
   slot |-> End(Emit(s, "error"), err)]

\* installApp up to its first suspension: [active, slot] after it.
\* extractOk: whether AdmZip manages to extract the archive (zip only).
InstallApp(s, active, extractOk) ==
  LET installerType == detectInstallerType(s.ext) IN
  IF AlreadyInstalling(active, s.app)
  THEN [active |-> active, slot |-> End(s, "AlreadyInstalling")]
  ELSE IF installerType = "unknown"
  THEN [active |-> active, slot |-> End(s, "UnknownInstallerType")]
  ELSE IF installerType = "zip"
  THEN IF extractOk
       THEN [active |-> active \cup {s.app},
             slot |-> [Emit(Emit(Emit(s, "preparing"), "extracting"), "searching")
                         EXCEPT !.pc = "zipPolling", !.attempt = 1]]
       ELSE InstallFail(Emit(Emit(s, "preparing"), "extracting"),
                        active \cup {s.app}, "ExtractionFailed")
  ELSE [active |-> active \cup {s.app},
        slot |-> [Emit(Emit(s, "preparing"), "installing")
                    EXCEPT !.pc = "installing"]]

\* appStore.setInstalledApp as installApp calls it
AppRecord(v, info) ==
  [installedVersion |-> IF v = "" THEN "1.0.0" ELSE v,
   installPath |-> info.installPath,
   executablePath |-> info.executablePath]

\* installApp once runInstaller / installFromZip has resolved with info:
\* [active, store, slot] after it
InstallSucceed(s, active, store, info) ==
  [active |-> active \ {s.app},
   store |-> [store EXCEPT ![s.app] = AppRecord(s.version, info)],
   slot |-> [Emit(s, "completed") EXCEPT !.outcome = "ok",
                                         !.pc = AfterInstall(s.op)]]

\* a direct caller is about to call installManager.installApp
CallInstall(r, x, e, v) == Begin(r, "installApp", x, e, v, "callInstall")

\* a caller is about to call installManager.uninstallApp (app:uninstall)
CallUninstall(r, x) == Begin(r, "app:uninstall", x, ".exe", "", "callUninstall")

\* a direct caller's installApp call, up to its first suspension
InstallAppCall(r, extractOk) ==
  /\ slot[r].pc = "callInstall"
  /\ LET res == InstallApp(slot[r], activeInstallations, extractOk) IN
       /\ activeInstallations' = res.active
       /\ slot' = [slot EXCEPT ![r] = Norm(res.slot)]
  /\ UNCHANGED <<activeDownloads, storeApps, tempFiles>>
  /\ UNCHANGED notInstallVars

\* installer 'close' with exit code 0: the 2 s settle delay starts
InstallerCloseOk(r) ==
  /\ slot[r].pc = "installing"
  /\ slot' = [slot EXCEPT ![r].pc = "settle"]
  /\ UNCHANGED <<activeInstallations, activeDownloads, storeApps, tempFiles>>
  /\ UNCHANGED notInstallVars

\* a faulty failure path that does not release the task entry
InstallerFailsHolding(r, err) ==
  /\ slot[r].pc = "installing"
  /\ slot' = [slot EXCEPT ![r] = Norm(End(Emit(@, "error"), err))]
  /\ UNCHANGED <<activeInstallations, activeDownloads, storeApps, tempFiles>>
  /\ UNCHANGED notInstallVars

\* runInstaller rejects: installer 'close' with a non-zero exit code
\* (InstallationFailed) or installer 'error' (InstallerStartFailed)
InstallerFails(r, err) ==
  /\ slot[r].pc = "installing"
  /\ LET res == InstallFail(slot[r], activeInstallations, err) IN
       /\ activeInstallations' = res.active
       /\ slot' = [slot EXCEPT ![r] = Norm(res.slot)]
  /\ UNCHANGED <<activeDownloads, storeApps, tempFiles>>
  /\ UNCHANGED notInstallVars

\* the settle delay is over: findInstalledExecutableWithPolling(.., 10, 3000)
SettleDone(r) ==
  /\ slot[r].pc = "settle"
  /\ slot' = [slot EXCEPT ![r].pc = "polling", ![r].attempt = 1]
  /\ UNCHANGED <<activeInstallations, activeDownloads, storeApps, tempFiles>>
  /\ UNCHANGED notInstallVars

\* installApp goes on with the info runInstaller / installFromZip resolved
Succeed(r, info) ==
  LET res == InstallSucceed(slot[r], activeInstallations, storeApps, info) IN
    /\ activeInstallations' = res.active
    /\ storeApps' = res.store
    /\ slot' = [slot EXCEPT ![r] = Norm(res.slot)]

\* a locator attempt after an installer run finds the executable
PollFound(r, found) ==
  /\ slot[r].pc = "polling"
  /\ Succeed(r, [installPath |-> dirname(found), executablePath |-> found])
  /\ UNCHANGED <<activeDownloads, tempFiles>>
  /\ UNCHANGED notInstallVars

\* a locator attempt after an installer run throws: wait and retry, or, on
\* the last attempt, show the manual-selection dialog
PollNotFound(r) ==
  /\ slot[r].pc = "polling"
  /\ slot' = [slot EXCEPT ![r] =
       IF @.attempt < InstallerMaxAttempts
       THEN [@ EXCEPT !.attempt = @ + 1]
       ELSE [@ EXCEPT !.pc = "prompt", !.attempt = 0]]
  /\ UNCHANGED <<activeInstallations, activeDownloads, storeApps, tempFiles>>
  /\ UNCHANGED notInstallVars

\* a faulty cancel branch that rejects instead of resolving
PromptCancelFails(r) ==
  /\ slot[r].pc = "prompt"
  /\ LET res == InstallFail(slot[r], activeInstallations, "ExecutableNotFound") IN
       /\ activeInstallations' = res.active
       /\ slot' = [slot EXCEPT ![r] = Norm(res.slot)]
  /\ UNCHANGED <<activeDownloads, storeApps, tempFiles>>
  /\ UNCHANGED notInstallVars

\* the dialog is cancelled: a record with a null executablePath
PromptCancelled(r) ==
  /\ slot[r].pc = "prompt"
  /\ Succeed(r, [installPath |-> baseInstallDir, executablePath |-> NoPath])
  /\ UNCHANGED <<activeDownloads, tempFiles>>
  /\ UNCHANGED notInstallVars

\* the user selects a file in the dialog
PromptSelected(r, selected) ==
  /\ slot[r].pc = "prompt"
  /\ Succeed(r, [installPath |-> dirname(selected), executablePath |-> selected])
  /\ UNCHANGED <<activeDownloads, tempFiles>>
  /\ UNCHANGED notInstallVars

\* dialog.showOpenDialog rejects inside the async 'close' listener: nothing
\* catches it and the promise of runInstaller never settles
PromptThrows(r) ==
  /\ slot[r].pc = "prompt"
  /\ slot' = [slot EXCEPT ![r] = Norm([@ EXCEPT !.pc = "orphaned"])]
  /\ UNCHANGED <<activeInstallations, activeDownloads, storeApps, tempFiles>>
  /\ UNCHANGED notInstallVars

\* a locator attempt after a zip extraction finds the executable
ZipPollFound(r, found) ==
  /\ slot[r].pc = "zipPolling"
  /\ Succeed(r, [installPath |-> extractPath(slot[r].app), executablePath |-> found])
  /\ UNCHANGED <<activeDownloads, tempFiles>>
  /\ UNCHANGED notInstallVars

\* a locator attempt after a zip extraction throws (5 attempts, 0.5 s apart);
\* after the last one installFromZip rethrows
ZipPollNotFound(r) ==
  /\ slot[r].pc = "zipPolling"
  /\ IF slot[r].attempt < ZipMaxAttempts
     THEN /\ slot' = [slot EXCEPT ![r].attempt = @ + 1]
          /\ UNCHANGED activeInstallations
     ELSE LET res == InstallFail(slot[r], activeInstallations, "ExtractionFailed") IN
            /\ activeInstallations' = res.active
            /\ slot' = [slot EXCEPT ![r] = Norm(res.slot)]
  /\ UNCHANGED <<activeDownloads, storeApps, tempFiles>>
  /\ UNCHANGED notInstallVars

\* uninstallApp up to its first suspension: [store, slot] after it.
\* hasUninstaller: whether findUninstaller finds a known file in installPath.
UninstallApp(s, store, hasUninstaller) ==
  IF store[s.app] = NoRecord
  THEN [store |-> store, slot |-> End(s, "NotInstalled")]
  ELSE IF hasUninstaller
  THEN [store |-> store,
        slot |-> [Emit(s, "uninstalling") EXCEPT !.pc = "uninstalling"]]
  ELSE [store |-> [store EXCEPT ![s.app] = NoRecord],
        slot |-> End(Emit(Emit(s, "uninstalling"), "completed"), "ok")]

\* uninstallApp once runUninstaller has settled: [store, slot] after it.
\* code: the exit code ('close'), or -1 for the 'error' event.
UninstallerClosed(s, store, code) ==
  IF code = 0
  THEN [store |-> [store EXCEPT ![s.app] = NoRecord],
        slot |-> End(Emit(s, "completed"), "ok")]
  ELSE [store |-> store,
        slot |-> End(Emit(s, "error"), "UninstallFailed")]

\* a caller's uninstallApp call, up to its first suspension
UninstallAppCall(r, hasUninstaller) ==
  /\ slot[r].pc = "callUninstall"
  /\ LET res == UninstallApp(slot[r], storeApps, hasUninstaller) IN
       /\ storeApps' = res.store
       /\ slot' = [slot EXCEPT ![r] = Norm(res.slot)]
  /\ UNCHANGED <<activeInstallations, activeDownloads, tempFiles>>
  /\ UNCHANGED notInstallVars

\* uninstaller 'close' / 'error'
UninstallerClose(r, code) ==
  /\ slot[r].pc = "uninstalling"
  /\ LET res == UninstallerClosed(slot[r], storeApps, code) IN
       /\ storeApps' = res.store
       /\ slot' = [slot EXCEPT ![r] = Norm(res.slot)]
  /\ UNCHANGED <<activeInstallations, activeDownloads, tempFiles>>
  /\ UNCHANGED notInstallVars

\* ------------------------------------------------------------------------
\* Download manager
\* ------------------------------------------------------------------------
\* crypto md5 of the URL, first 8 hex digits: one tag per URL
urlHash(u) == <<"md5", u>>
\* path.basename(new URL(url).pathname)
basename(u) == <<u.app, u.ext>>
\* path.join(tempDir, `${urlHash}_${fileName}`)
filePathOf(u, fileName) == [hash |-> urlHash(u), name |-> fileName]
\* the target a redirect answer names
redirectUrl(u) == [u EXCEPT !.hop = @ + 1]
\* fileName of a call: the basename of the first URL survives redirects
fileNameOf(s) == basename(assetUrl(s.app, s.ext))
filePath(s) == filePathOf(s.url, fileNameOf(s))

\* the presence check of downloadFile
AlreadyDownloading(downloads, x) == downloads[x] # NoTask

\* downloadFile(appId, u, cb, fileName) up to the point where the request is
\* sent: [files, slot] after it. Rejects when a task exists, otherwise opens
\* the write stream.
DownloadFile(s, downloads, files, u) ==
  IF AlreadyDownloading(downloads, s.app)
  THEN [files |-> files,
        slot |-> [End(s, "AlreadyDownloading") EXCEPT !.dlEnd = "rejected"]]
  ELSE [files |-> files \cup {filePathOf(u, fileNameOf(s))},
        slot |-> [s EXCEPT !.pc = "dlWait", !.url = u]]

\* ipcMain.handle('app:install'): up to the await of getAppReleaseInfo
IpcInstall(r, x) == Begin(r, "app:install", x, ".exe", "", "resolving")

\* app:install: getAppReleaseInfo rejects (ResolveFailed), or the release
\* has no asset (NoInstaller)
ResolveFails(r, err) ==
  /\ slot[r].pc = "resolving"
  /\ slot' = [slot EXCEPT ![r] = Norm(End(@, err))]
  /\ UNCHANGED <<activeInstallations, activeDownloads, storeApps, tempFiles>>
  /\ UNCHANGED notInstallVars

\* app:install: the release resolves with an asset; downloadFile is called
ResolveOk(r, e, v) ==
  /\ slot[r].pc = "resolving"
  /\ LET s == [slot[r] EXCEPT !.ext = e, !.version = v]
         res == DownloadFile(s, activeDownloads, tempFiles, assetUrl(s.app, e))
     IN /\ tempFiles' = res.files
        /\ slot' = [slot EXCEPT ![r] = Norm(res.slot)]
  /\ UNCHANGED <<activeInstallations, activeDownloads, storeApps>>
  /\ UNCHANGED notInstallVars

\* file.close(); fs.unlinkSync(filePath) in the response callback throws
\* when the file is gone: the exception leaves the callback and the promise
\* never settles
UnlinkThrows(s) == [s EXCEPT !.pc = "dlHung", !.dlEnd = "threw"]

\* the response callback of https.get: a 301/302 answer
DlRedirect(r) ==
  /\ slot[r].pc = "dlWait"
  /\ slot[r].redirects < MaxRedirects
  /\ IF filePath(slot[r]) \notin tempFiles
     THEN /\ slot' = [slot EXCEPT ![r] = Norm(UnlinkThrows(@))]
          /\ UNCHANGED tempFiles
     ELSE LET s == [slot[r] EXCEPT !.redirects = @ + 1]
              res == DownloadFile(s, activeDownloads,
                                  tempFiles \ {filePath(slot[r])},
                                  redirectUrl(slot[r].url))
          IN /\ tempFiles' = res.files
             /\ slot' = [slot EXCEPT ![r] = Norm(res.slot)]
  /\ UNCHANGED <<activeInstallations, activeDownloads, storeApps>>
  /\ UNCHANGED notInstallVars

\* the response callback: a status other than 200, 301, 302
DlBadStatus(r) ==
  /\ slot[r].pc = "dlWait"
  /\ IF filePath(slot[r]) \notin tempFiles
     THEN /\ slot' = [slot EXCEPT ![r] = Norm(UnlinkThrows(@))]
          /\ UNCHANGED tempFiles
     ELSE /\ tempFiles' = tempFiles \ {filePath(slot[r])}
          /\ slot' = [slot EXCEPT ![r] =
               Norm([End(@, "DownloadFailed") EXCEPT !.dlEnd = "status"])]
  /\ UNCHANGED <<activeInstallations, activeDownloads, storeApps>>
  /\ UNCHANGED notInstallVars

\* the response callback: status 200, the task is registered
DlResponseOk(r) ==
  /\ slot[r].pc = "dlWait"
  /\ activeDownloads' = [activeDownloads EXCEPT
       ![slot[r].app] = [request |-> r, filePath |-> filePath(slot[r])]]
  /\ slot' = [slot EXCEPT ![r].pc = "dlStream"]
  /\ UNCHANGED <<activeInstallations, storeApps, tempFiles>>
  /\ UNCHANGED notInstallVars

\* file 'finish': the task is removed, the promise resolves and app:install
\* goes on to installApp
DlFinish(r, extractOk) ==
  /\ slot[r].pc = "dlStream"
  /\ activeDownloads' = [activeDownloads EXCEPT ![slot[r].app] = NoTask]
  /\ LET res == InstallApp([slot[r] EXCEPT !.dlEnd = "finish"],
                           activeInstallations, extractOk) IN
       /\ activeInstallations' = res.active
       /\ slot' = [slot EXCEPT ![r] = Norm(res.slot)]
  /\ UNCHANGED <<storeApps, tempFiles>>
  /\ UNCHANGED notInstallVars

\* the 'error' handler of the request: [downloads, files] after it
ErrorCleanup(s, downloads, files) ==
  [downloads |-> [downloads EXCEPT ![s.app] = NoTask],
   files |-> files \ {filePath(s)}]

\* request 'error'
DlError(r) ==
  /\ slot[r].pc \in DownloadPc
  /\ LET res == ErrorCleanup(slot[r], activeDownloads, tempFiles) IN
       /\ activeDownloads' = res.downloads
       /\ tempFiles' = res.files
  /\ slot' = [slot EXCEPT ![r] =
       Norm([End(@, "DownloadFailed") EXCEPT !.dlEnd = "error"])]
  /\ UNCHANGED <<activeInstallations, storeApps>>
  /\ UNCHANGED notInstallVars

\* what the 30 s timeout callback leaves behind: [downloads, files].
\* request.destroy() before the response makes the request emit 'error'
\* (socket hang up), so the error handler runs; once the response has been
\* received the request emits no 'error' and nothing is cleaned up.
TimeoutCleanup(s, downloads, files) ==
  IF s.pc = "dlWait"
  THEN ErrorCleanup(s, downloads, files)
  ELSE [downloads |-> downloads, files |-> files]

\* request.setTimeout(30000, ...): destroy the request, reject
DlTimeout(r) ==
  /\ slot[r].pc \in DownloadPc
  /\ LET res == TimeoutCleanup(slot[r], activeDownloads, tempFiles) IN
       /\ activeDownloads' = res.downloads
       /\ tempFiles' = res.files
  /\ slot' = [slot EXCEPT ![r] =
       Norm([End(@, "DownloadTimeout") EXCEPT !.dlEnd = "timeout"])]
  /\ UNCHANGED <<activeInstallations, storeApps>>
  /\ UNCHANGED notInstallVars

\* the callers whose transfer the request handle of x's task still drives
LiveOwner(x) ==
  {r \in Slots : /\ activeDownloads[x] # NoTask
                 /\ activeDownloads[x].request = r
                 /\ slot[r].app = x
                 /\ slot[r].pc = "dlStream"}

\* cancelDownload(x) with a task present (without one it returns false and
\* changes nothing): the request is destroyed, so its promise never settles,
\* the file is unlinked and the task removed
CancelDownload(x) ==
  /\ activeDownloads[x] # NoTask
  /\ tempFiles' = tempFiles \ {activeDownloads[x].filePath}
  /\ activeDownloads' = [activeDownloads EXCEPT ![x] = NoTask]
  /\ slot' = [r \in Slots |->
       IF r \in LiveOwner(x)
       THEN Norm([slot[r] EXCEPT !.pc = "dlHung", !.dlEnd = "cancel"])
       ELSE slot[r]]
  /\ UNCHANGED <<activeInstallations, storeApps>>
  /\ UNCHANGED notInstallVars

\* app:install: the 500 ms wait after installApp, then operation:complete
IpcComplete(r) ==
  /\ slot[r].pc = "ipcWait"
  /\ slot' = [slot EXCEPT ![r] = Norm([@ EXCEPT !.pc = "done"])]
  /\ UNCHANGED <<activeInstallations, activeDownloads, storeApps, tempFiles>>
  /\ UNCHANGED notInstallVars

\* ------------------------------------------------------------------------
\* Version cache
\* ------------------------------------------------------------------------
\* A call record holds the locals of one getLatestVersion call:
\*   pc      "idle" | "fetching" (awaiting getAppReleaseInfo) | "done"
\*   app     appId
\*   now     the Date.now() read at the start of the call
\*   cached  the entry read at the start of the call
\*   fetch   what the resolver answered: "none" (not called) | "ok" |
\*           "noVersion" (a release whose version is empty) | "error"
\*   result  the version returned
NoEntry == [none |-> TRUE]
FreshCall == [pc |-> "idle", app |-> AnApp, now |-> 0, cached |-> NoEntry,
              fetch |-> "none", result |-> ""]

\* releaseInfo.version as the resolver can return it; "" is what is left of
\* the tag "v" once the leading v is stripped
ResolvedVersions == {"1.1.0", "2.0.0", ""}
\* app.version of the catalog entry, handed in as fallbackVersion
fallbackVersion(x) == "1.0.0"
\* how far the clock moves between two events (milliseconds)
ClockSteps == {60000, 240000}

\* a faulty freshness test that still serves an entry whose age equals its ttl
IsFreshInclusive(cached, t) ==
  cached # NoEntry /\ t - cached.fetchedAt <= cached.ttl

\* the freshness test of getLatestVersion
IsFresh(cached, t) == cached # NoEntry /\ t - cached.fetchedAt < cached.ttl

\* useFallback: [cache, result] after it
useFallback(c, x, fallback, timestamp) ==
  [cache |-> [c EXCEPT ![x] = [version |-> fallback, fetchedAt |-> timestamp,
                               ttl |-> fallbackTTL]],
   result |-> fallback]

\* getLatestVersion once getAppReleaseInfo has resolved with `v` as
\* releaseInfo.version: [cache, result] after it
FetchResolved(call, c, v) ==
  IF v # ""
  THEN [cache |-> [c EXCEPT ![call.app] = [version |-> v, fetchedAt |-> call.now,
                                           ttl |-> defaultTTL]],
        result |-> v]
  ELSE useFallback(c, call.app, fallbackVersion(call.app), call.now)

\* getLatestVersion once getAppReleaseInfo has rejected (the catch block):
\* [cache, result] after it
FetchRejected(call, c) ==
  IF call.cached # NoEntry
  THEN [cache |-> c, result |-> call.cached.version]
  ELSE useFallback(c, call.app, fallbackVersion(call.app), call.now)

\* getLatestVersion(x, ..) up to its return or its await
GetLatestVersion(c, x) ==
  /\ gv[c].pc \in {"idle", "done"}
  /\ LET cached == cache[x] IN
       gv' = [gv EXCEPT ![c] =
         IF IsFresh(cached, now)
         THEN [pc |-> "done", app |-> x, now |-> now, cached |-> cached,
               fetch |-> "none", result |-> cached.version]
         ELSE [pc |-> "fetching", app |-> x, now |-> now, cached |-> cached,
               fetch |-> "none", result |-> ""]]
  /\ UNCHANGED <<cache, now>>
  /\ UNCHANGED notCacheVars

\* getAppReleaseInfo resolves
FetchOk(c, v) ==
  /\ gv[c].pc = "fetching"
  /\ LET res == FetchResolved(gv[c], cache, v) IN
       /\ cache' = res.cache
       /\ gv' = [gv EXCEPT ![c].pc = "done", ![c].result = res.result,
                           ![c].fetch = IF v = "" THEN "noVersion" ELSE "ok"]
  /\ UNCHANGED now
  /\ UNCHANGED notCacheVars

\* getAppReleaseInfo rejects
FetchFails(c) ==
  /\ gv[c].pc = "fetching"
  /\ LET res == FetchRejected(gv[c], cache) IN
       /\ cache' = res.cache
       /\ gv' = [gv EXCEPT ![c].pc = "done", ![c].result = res.result,
                           ![c].fetch = "error"]
  /\ UNCHANGED now
  /\ UNCHANGED notCacheVars

\* time passes. A resolver request settles within its 10 s timeout, which is
\* less than one clock step, so no request is in flight across a step.
Tick(d) ==
  /\ now + d <= MaxNow
  /\ \A c \in Slots : gv[c].pc # "fetching"
  /\ now' = now + d
  /\ UNCHANGED <<cache, gv>>
  /\ UNCHANGED notCacheVars

\* ------------------------------------------------------------------------
\* Launcher
\* ------------------------------------------------------------------------
\* runningProcesses holds per identity NoProc or an entry [pid, executablePath];
\* pid 0 stands for the undefined pid of a child that failed to start.
\* procs holds per child handle NoChild or [app, state], state being
\*   "alive"   running
\*   "exited"  ended by itself, its 'exit' event not yet delivered
\*   "killed"  ended by the signal of killApp, 'exit' not yet delivered
\*   "failed"  could not be started, its 'error' event not yet delivered
NoProc == [none |-> TRUE]
NoChild == [none |-> TRUE]
Handles == 1..MaxSpawns

\* the executable an earlier session recorded for x
RecordedExe(x) == <<"C:", "Program Files", x, "app.exe">>
\* the AppRecords of x the store file can hold when the process starts
PersistedRecords(x) ==
  {NoRecord,
   [installedVersion |-> "2.0.0", installPath |-> dirname(RecordedExe(x)),
    executablePath |-> RecordedExe(x)],
   [installedVersion |-> "2.0.0", installPath |-> baseInstallDir,
    executablePath |-> NoPath]}

\* lastCall: the launchApp / killApp call made last and how it ended;
\* seq tells one call from the next
NoCall == [op |-> "none", app |-> AnApp, outcome |-> "none", seq |-> 0]
Call(o, x, res) == [op |-> o, app |-> x, outcome |-> res, seq |-> 1 - lastCall.seq]

\* a faulty running check that never sees a tracked process
NeverRunning(running, x) == FALSE

\* isAppRunning
isAppRunning(running, x) == running[x] # NoProc

\* the checks of launchApp before the try block: the error thrown, or "none"
LaunchRefusal(store, disk, running, x) ==
  IF store[x] = NoRecord THEN "NotInstalled"
  ELSE IF store[x].executablePath = NoPath THEN "NoExecutablePath"
  ELSE IF store[x].executablePath \notin disk THEN "ExecutableMissing"
  ELSE IF isAppRunning(running, x) THEN "AlreadyRunning"
  ELSE "none"

\* new Date() at the k-th launch: launches happen at increasing times
LaunchTime(k) == k

\* appStore.updateLastLaunched: sets apps.<id>.lastLaunched on a record
updateLastLaunched(store, x, t) ==
  IF store[x] = NoRecord
  THEN store
  ELSE [store EXCEPT ![x] = ("lastLaunched" :> t) @@ store[x]]

\* launchApp(x). spawnOk: whether the child starts; if not, spawn returns a
\* child without pid that emits 'error' later.
LaunchApp(x, spawnOk) ==
  /\ LET refusal == LaunchRefusal(storeApps, diskFiles, runningProcesses, x) IN
       IF refusal # "none"
       THEN /\ lastCall' = Call("launchApp", x, refusal)
            /\ UNCHANGED <<runningProcesses, procs, spawned, storeApps>>
       ELSE /\ spawned < MaxSpawns
            /\ spawned' = spawned + 1
            /\ procs' = [procs EXCEPT ![spawned + 1] =
                 [app |-> x, state |-> IF spawnOk THEN "alive" ELSE "failed"]]
            /\ runningProcesses' = [runningProcesses EXCEPT ![x] =
                 [pid |-> IF spawnOk THEN spawned + 1 ELSE 0,
                  executablePath |-> storeApps[x].executablePath]]
            /\ storeApps' = updateLastLaunched(storeApps, x, LaunchTime(spawned + 1))
            /\ lastCall' = Call("launchApp", x, "ok")
  /\ UNCHANGED <<diskFiles, reads>>
  /\ UNCHANGED <<activeInstallations, activeDownloads, tempFiles, slot>>
  /\ UNCHANGED notLaunchVars

\* whether process.kill(pid, 'SIGTERM') throws: the pid is undefined, the
\* process is gone, or (refused) the system refuses to signal a live one
KillThrows(children, pid, refused) ==
  \/ pid = 0
  \/ children[pid] = NoChild
  \/ children[pid].state # "alive"
  \/ refused

\* a faulty cleanup that keeps the entry when the signal threw
KillCleanupOnSuccess(running, x, threw) ==
  IF threw THEN running ELSE [running EXCEPT ![x] = NoProc]

\* runningProcesses after the try / catch of killApp
KillCleanup(running, x, threw) == [running EXCEPT ![x] = NoProc]

\* killApp(x): returns false for an untracked x ("untracked"), true when the
\* signal was sent ("signalled"), false when process.kill threw ("threw")
KillApp(x, refused) ==
  /\ IF runningProcesses[x] = NoProc
     THEN /\ lastCall' = Call("killApp", x, "untracked")
          /\ UNCHANGED <<runningProcesses, procs>>
     ELSE LET pid == runningProcesses[x].pid
              threw == KillThrows(procs, pid, refused)
          IN /\ procs' = IF threw THEN procs
                         ELSE [procs EXCEPT ![pid].state = "killed"]
             /\ runningProcesses' = KillCleanup(runningProcesses, x, threw)
             /\ lastCall' = Call("killApp", x, IF threw THEN "threw" ELSE "signalled")
  /\ UNCHANGED <<spawned, diskFiles, reads>>
  /\ UNCHANGED installVars
  /\ UNCHANGED notLaunchVars

\* a launched program ends by itself
ProcessExits(p) ==
  /\ procs[p] # NoChild
  /\ procs[p].state = "alive"
  /\ procs' = [procs EXCEPT ![p].state = "exited"]
  /\ UNCHANGED <<runningProcesses, spawned, diskFiles, lastCall, reads>>
  /\ UNCHANGED installVars
  /\ UNCHANGED notLaunchVars

\* child.on('exit') / child.on('error') of the child p: the entry of its
\* identity is deleted, whichever child the entry belongs to
ChildGone(p) ==
  /\ procs[p] # NoChild
  /\ procs[p].state \in {"exited", "killed", "failed"}
  /\ runningProcesses' = [runningProcesses EXCEPT ![procs[p].app] = NoProc]
  /\ procs' = [procs EXCEPT ![p] = NoChild]
  /\ UNCHANGED <<spawned, diskFiles, lastCall, reads>>
  /\ UNCHANGED installVars
  /\ UNCHANGED notLaunchVars

\* the user removes an executable from the disk
ExeDeleted(f) ==
  /\ f \in diskFiles
  /\ diskFiles' = diskFiles \ {f}
  /\ UNCHANGED <<runningProcesses, procs, spawned, lastCall, reads>>
  /\ UNCHANGED installVars
  /\ UNCHANGED notLaunchVars

\* ------------------------------------------------------------------------
\* App list read (enrichAppData)
\* ------------------------------------------------------------------------
\* A read record holds the locals of one enrichAppData call:
\*   pc            "idle" | "awaiting" (getLatestVersion) | "done"
\*   installedApp  the record read before the await
\*   isRunning     launcherService.isAppRunning read before the await
\*   report        the fields of the returned object that depend on the record
NullVersion == "null"
NoReport == [installStatus |-> "none", installedVersion |-> NullVersion,
             isRunning |-> FALSE]
FreshRead == [pc |-> "idle", app |-> AnApp, installedApp |-> NoRecord,
              isRunning |-> FALSE, report |-> NoReport]
NotInstalledReport ==
  [installStatus |-> "not_installed", installedVersion |-> NullVersion,
   isRunning |-> FALSE]

\* a faulty read that trusts the record without looking at the disk
EnrichTrusting(call, store, disk) ==
  IF call.installedApp # NoRecord
  THEN [store |-> store,
        report |-> [installStatus |-> "installed",
                    installedVersion |-> call.installedApp.installedVersion,
                    isRunning |-> call.isRunning]]
  ELSE [store |-> store, report |-> NotInstalledReport]

\* enrichAppData after the await: [store, report]
EnrichResult(call, store, disk) ==
  IF call.installedApp # NoRecord
  THEN IF \/ call.installedApp.executablePath = NoPath
          \/ call.installedApp.executablePath \notin disk
       THEN [store |-> [store EXCEPT ![call.app] = NoRecord],
             report |-> NotInstalledReport]
       ELSE [store |-> store,
             report |-> [installStatus |-> "installed",
                         installedVersion |-> call.installedApp.installedVersion,
                         isRunning |-> call.isRunning]]
  ELSE [store |-> store, report |-> NotInstalledReport]

\* enrichAppData(x) up to the await of getLatestVersion
EnrichStart(r, x) ==
  /\ reads[r].pc \in {"idle", "done"}
  /\ reads' = [reads EXCEPT ![r] =
       [pc |-> "awaiting", app |-> x, installedApp |-> storeApps[x],
        isRunning |-> isAppRunning(runningProcesses, x), report |-> NoReport]]
  /\ UNCHANGED <<runningProcesses, procs, spawned, diskFiles, lastCall>>
  /\ UNCHANGED installVars
  /\ UNCHANGED notLaunchVars

\* enrichAppData from the await to its return
EnrichFinish(r) ==
  /\ reads[r].pc = "awaiting"
  /\ LET res == EnrichResult(reads[r], storeApps, diskFiles) IN
       /\ storeApps' = res.store
       /\ reads' = [reads EXCEPT ![r] =
            [FreshRead EXCEPT !.pc = "done", !.app = reads[r].app,
                              !.report = res.report]]
  /\ UNCHANGED <<runningProcesses, procs, spawned, diskFiles, lastCall>>
  /\ UNCHANGED <<activeInstallations, activeDownloads, tempFiles, slot>>
  /\ UNCHANGED notLaunchVars

\* ------------------------------------------------------------------------
\* Executable locator: the choice within one probed directory
\* (findInstalledExecutable, phase 1).  File names and app names are
\* sequences of characters, in the case the directory or apps.json holds.
\* ------------------------------------------------------------------------
appExe == <<"a", "p", "p", ".", "e", "x", "e">>
setupExe == <<"s", "e", "t", "u", "p", ".", "e", "x", "e">>
helperExe ==
  <<"M", "y", "A", "p", "p", " ", "H", "e", "l", "p", "e", "r", ".", "e", "x", "e">>
uninsExe == <<"u", "n", "i", "n", "s", "0", "0", "0", ".", "e", "x", "e">>
readmeTxt == <<"r", "e", "a", "d", "m", "e", ".", "t", "x", "t">>
FileNames == {appExe, setupExe, helperExe, uninsExe, readmeTxt}
\* appDef.name values
AppNames ==
  {<<"M", "y", "A", "p", "p">>, <<"M", "y", " ", "A", "p", "p">>,
   <<"O", "t", "h", "e", "r">>}
\* what fs.readdirSync can return: distinct names, in any order
Listings ==
  {l \in UNION {[1..n -> FileNames] : n \in 0..MaxFiles} :
     \A i, j \in DOMAIN l : i # j => l[i] # l[j]}

NoFile == <<>>
dotExe == <<".", "e", "x", "e">>
installerWords ==
  {<<"s", "e", "t", "u", "p">>, <<"i", "n", "s", "t", "a", "l", "l">>,
   <<"u", "n", "i", "n", "s">>, <<"u", "p", "d", "a", "t", "e", "r">>,
   <<"l", "a", "u", "n", "c", "h", "e", "r">>}

\* String.prototype.toLowerCase on the letters the names use
lowerOf == [M |-> "m", A |-> "a", H |-> "h", O |-> "o", W |-> "w", Z |-> "z"]
toLowerCase(s) ==
  [i \in 1..Len(s) |-> IF s[i] \in DOMAIN lowerOf THEN lowerOf[s[i]] ELSE s[i]]
\* replace(/\s+/g, '')
stripSpaces(s) == SelectSeq(s, LAMBDA c : c # " ")
endsWith(s, suffix) ==
  /\ Len(s) >= Len(suffix)
  /\ SubSeq(s, Len(s) - Len(suffix) + 1, Len(s)) = suffix
\* the offsets at which sub occurs in s
Occurrences(s, sub) ==
  {i \in 0..(Len(s) - Len(sub)) : SubSeq(s, i + 1, i + Len(sub)) = sub}
includes(s, sub) == Occurrences(s, sub) # {}
\* replace(pattern, ''): the first occurrence only
removeFirst(s, pattern) ==
  IF Occurrences(s, pattern) = {}
  THEN s
  ELSE LET i == CHOOSE k \in Occurrences(s, pattern) :
                  \A m \in Occurrences(s, pattern) : k <= m
       IN SubSeq(s, 1, i) \o SubSeq(s, i + Len(pattern) + 1, Len(s))

isExe(f) == endsWith(toLowerCase(f), dotExe)
\* priority 1: the normalized file name equals or contains the app name
matchesAppName(f, appName) ==
  LET appNameNormalized == stripSpaces(toLowerCase(appName))
      fileNameNormalized == removeFirst(stripSpaces(toLowerCase(f)), dotExe)
  IN \/ fileNameNormalized = appNameNormalized
     \/ includes(fileNameNormalized, appNameNormalized)
\* priority 2: no installer / uninstaller word in the name
notInstaller(f) == \A w \in installerWords : ~includes(toLowerCase(f), w)

\* Array.prototype.find over a listing, by position
FirstWhere(files, Pos) ==
  IF Pos = {} THEN NoFile
  ELSE files[CHOOSE i \in Pos : \A j \in Pos : i <= j]

\* a faulty probe that takes the first executable of the listing
ProbeFirstExe(files, appName) ==
  FirstWhere(files, {i \in DOMAIN files : isExe(files[i])})

\* the executable chosen in a directory with this listing (NoFile: none,
\* the probe goes on to the next directory)
ProbeDirectory(files, appName) ==
  LET exePos == {i \in DOMAIN files : isExe(files[i])}
      byName == {i \in exePos : matchesAppName(files[i], appName)}
      clean == {i \in exePos : notInstaller(files[i])}
  IN IF exePos = {} THEN NoFile
     ELSE IF byName # {} THEN FirstWhere(files, byName)
     ELSE IF clean # {} THEN FirstWhere(files, clean)
     ELSE FirstWhere(files, exePos)

NoProbe == [pc |-> "idle", files |-> <<>>, appName |-> <<>>, chosen |-> NoFile]

\* one directory of the search list is listed and an executable is chosen
ProbeStep ==
  /\ probe.pc = "listed"
  /\ probe' = [probe EXCEPT !.pc = "chosen",
                            !.chosen = ProbeDirectory(probe.files, probe.appName)]
  /\ UNCHANGED <<installVars, cacheVars, launchVars, sweepVars, otherVars>>

\* ------------------------------------------------------------------------
\* Update checker (UpdateChecker.checkForUpdates) and the version comparator
\* (GitHubService.compareVersions)
\* ------------------------------------------------------------------------
\* apps.json, in file order
Catalog == <<"app1", "app2">>
CatalogIds == {Catalog[i] : i \in DOMAIN Catalog}
\* installedVersion values of the records
InstalledVersions == {"1.9.0", "1.10.0", "2.0"}
\* versions the resolver reports for the latest release
LatestVersions == {"1.10.0", "1.10"}

\* the characters of the version strings
versionChars ==
  ("1.9.0" :> <<"1", ".", "9", ".", "0">>) @@
  ("1.10.0" :> <<"1", ".", "1", "0", ".", "0">>) @@
  ("1.10" :> <<"1", ".", "1", "0">>) @@
  ("2.0" :> <<"2", ".", "0">>)
digitValue ==
  ("0" :> 0) @@ ("1" :> 1) @@ ("2" :> 2) @@ ("3" :> 3) @@ ("4" :> 4) @@
  ("5" :> 5) @@ ("6" :> 6) @@ ("7" :> 7) @@ ("8" :> 8) @@ ("9" :> 9)
NaN == -1

\* replace(/^v/, '')
stripV(s) == IF s # <<>> /\ Head(s) = "v" THEN Tail(s) ELSE s

RECURSIVE split(_, _)
split(s, sep) ==
  IF \A i \in DOMAIN s : s[i] # sep
  THEN <<s>>
  ELSE LET i == CHOOSE k \in DOMAIN s :
                  s[k] = sep /\ \A m \in 1..(k - 1) : s[m] # sep
       IN <<SubSeq(s, 1, i - 1)>> \o split(SubSeq(s, i + 1, Len(s)), sep)

RECURSIVE decimal(_)
decimal(s) ==
  IF s = <<>> THEN 0
  ELSE 10 * decimal(SubSeq(s, 1, Len(s) - 1)) + digitValue[s[Len(s)]]
\* Number(part) for a part without sign, blanks or exponent
ToNumber(s) ==
  IF \E i \in DOMAIN s : s[i] \notin DOMAIN digitValue THEN NaN ELSE decimal(s)

\* the numbers of a version text: strip a leading v, split on ".", Number
partsOf(chars) ==
  LET parts == split(stripV(chars), ".")
  IN [i \in DOMAIN parts |-> ToNumber(parts[i])]
versionParts(version) == partsOf(versionChars[version])
\* parts[i] || 0
partOrZero(parts, i) ==
  IF i > Len(parts) \/ parts[i] = NaN THEN 0 ELSE parts[i]

\* a faulty loop that stops at the shorter version and ranks the longer
\* one higher
comparePartsUnpadded(v1Parts, v2Parts) ==
  LET n == IF Len(v1Parts) < Len(v2Parts) THEN Len(v1Parts) ELSE Len(v2Parts)
      differ == {i \in 1..n : partOrZero(v1Parts, i) # partOrZero(v2Parts, i)}
  IN IF differ = {}
     THEN IF Len(v1Parts) > Len(v2Parts) THEN 1
          ELSE IF Len(v1Parts) < Len(v2Parts) THEN -1 ELSE 0
     ELSE LET i == CHOOSE k \in differ : \A m \in differ : k <= m
          IN IF partOrZero(v1Parts, i) > partOrZero(v2Parts, i) THEN 1 ELSE -1

\* the loop over the parts, to the longer of the two
compareParts(v1Parts, v2Parts) ==
  LET n == IF Len(v1Parts) > Len(v2Parts) THEN Len(v1Parts) ELSE Len(v2Parts)
      differ == {i \in 1..n : partOrZero(v1Parts, i) # partOrZero(v2Parts, i)}
  IN IF differ = {} THEN 0
     ELSE LET i == CHOOSE k \in differ : \A m \in differ : k <= m
          IN IF partOrZero(v1Parts, i) > partOrZero(v2Parts, i) THEN 1 ELSE -1

\* a faulty comparator that looks at the first part only
compareFirstPart(version1, version2) ==
  LET p1 == partOrZero(versionParts(version1), 1)
      p2 == partOrZero(versionParts(version2), 1)
  IN IF p1 > p2 THEN 1 ELSE IF p1 < p2 THEN -1 ELSE 0

compareVersions(version1, version2) ==
  compareParts(versionParts(version1), versionParts(version2))

\* compareVersions on version texts given as characters
compareVersionTexts(a, b) == compareParts(partsOf(a), partsOf(b))

\* the components version texts are written from
Components == {0, 1, 9, 10}
VersionNumbers == UNION {[1..n -> Components] : n \in 1..MaxParts}
RECURSIVE digitsOf(_)
digitsOf(n) ==
  LET d == CHOOSE c \in DOMAIN digitValue : digitValue[c] = n % 10
  IN IF n < 10 THEN <<d>> ELSE digitsOf(n \div 10) \o <<d>>
\* the dotted text of a sequence of components
RECURSIVE dotted(_)
dotted(ns) ==
  IF Len(ns) = 1 THEN digitsOf(ns[1])
  ELSE dotted(SubSeq(ns, 1, Len(ns) - 1)) \o <<".">> \o digitsOf(ns[Len(ns)])

NoCompare == [pc |-> "idle", a |-> <<>>, b |-> <<>>, ab |-> 0, ba |-> 0, aa |-> 0]
\* compareVersions is called on the two texts, both ways round and on a
\* text and itself
CompareStep ==
  /\ cmp.pc = "given"
  /\ cmp' = [cmp EXCEPT !.pc = "compared",
                        !.ab = compareVersionTexts(dotted(cmp.a), dotted(cmp.b)),
                        !.ba = compareVersionTexts(dotted(cmp.b), dotted(cmp.a)),
                        !.aa = compareVersionTexts(dotted(cmp.a), dotted(cmp.a))]
  /\ UNCHANGED <<installVars, cacheVars, launchVars, locatorVars, sweepVars>>
  /\ UNCHANGED <<resolverVars, progressVars, phaseVars, pollVars, scanVars, lateVars>>

\* a record of the store as the sweep sees it
SweepRecord(v) ==
  [installedVersion |-> v, installPath |-> baseInstallDir,
   executablePath |-> NoPath]

NoSnapshot == [x \in CatalogIds |-> NoRecord]
\* a caller's checkForUpdates call
\*   pc             "idle", "awaiting" (getAppReleaseInfo pending), "done"
\*   defs           appsDefinitions from the one being resolved on
\*   installedApps  the object getInstalledApps returned (a local, gone
\*                  when the call returns)
\*   found          appsWithUpdates
\*   failed         the apps whose resolution was logged as failed
\*   outcome        "ok", "discarded" or "threw"
\*   sequel         history: the store held what the sweep before had read
FreshSweep ==
  [pc |-> "idle", defs |-> <<>>, installedApps |-> NoSnapshot,
   found |-> <<>>, failed |-> {}, outcome |-> "none", sequel |-> FALSE]

\* a faulty guard that never sees the sweep in progress
NeverChecking(checking) == FALSE

\* the guard of checkForUpdates and of the interval callback
SweepInProgress(checking) == checking

\* the definitions from the first one the loop does not skip
RECURSIVE SkipUninstalled(_, _)
SkipUninstalled(defs, installedApps) ==
  IF defs = <<>> THEN <<>>
  ELSE IF installedApps[Head(defs)] = NoRecord
       THEN SkipUninstalled(Tail(defs), installedApps)
       ELSE defs

UpdateEntry(x, installedApps, latestVersion) ==
  [id |-> x, installedVersion |-> installedApps[x].installedVersion,
   latestVersion |-> latestVersion]

\* the loop runs on from sw.defs to its next await, or to the end of the
\* sweep: the timestamp is written, or writing it throws
SweepOn(c, sw, stampThrows, changed) ==
  LET rest == SkipUninstalled(sw.defs, sw.installedApps) IN
    IF rest # <<>>
    THEN /\ sweeps' = [sweeps EXCEPT ![c] = [sw EXCEPT !.pc = "awaiting",
                                                      !.defs = rest]]
         /\ isChecking' = TRUE
         /\ UNCHANGED lastUpdateCheck
         /\ storeChanged' = changed
    ELSE /\ isChecking' = FALSE
         /\ IF stampThrows
            THEN /\ sweeps' = [sweeps EXCEPT ![c] =
                                 [FreshSweep EXCEPT !.pc = "done",
                                                    !.outcome = "threw"]]
                 /\ UNCHANGED lastUpdateCheck
                 /\ storeChanged' = TRUE
            ELSE /\ sweeps' = [sweeps EXCEPT ![c] =
                                 [sw EXCEPT !.pc = "done", !.defs = <<>>,
                                            !.installedApps = NoSnapshot,
                                            !.outcome = "ok"]]
                 /\ lastUpdateCheck' = lastUpdateCheck + 1
                 /\ storeChanged' = changed

\* checkForUpdates(defs) up to its first await or its return
CheckForUpdates(c, defs, storeThrows, stampThrows) ==
  /\ sweeps[c].pc # "awaiting"
  /\ lastUpdateCheck < MaxChecks
  /\ IF SweepInProgress(isChecking)
     THEN /\ sweeps' = [sweeps EXCEPT ![c] =
                          [FreshSweep EXCEPT !.pc = "done",
                                             !.outcome = "discarded"]]
          /\ UNCHANGED <<isChecking, lastUpdateCheck, storeChanged>>
     ELSE IF storeThrows
          THEN /\ sweeps' = [sweeps EXCEPT ![c] =
                               [FreshSweep EXCEPT !.pc = "done",
                                                  !.outcome = "threw"]]
               /\ isChecking' = FALSE
               /\ UNCHANGED lastUpdateCheck
               /\ storeChanged' = TRUE
          ELSE SweepOn(c, [FreshSweep EXCEPT
                             !.defs = defs,
                             !.installedApps = storeApps,
                             !.sequel = (defs # <<>> /\ ~storeChanged)],
                       stampThrows,
                       IF defs = <<>> THEN storeChanged ELSE FALSE)
  /\ UNCHANGED <<latest, storeApps>>
  /\ UNCHANGED <<activeInstallations, activeDownloads, tempFiles, slot>>
  /\ UNCHANGED <<cacheVars, launchVars, locatorVars, otherVars>>

\* ipcMain 'updates:check': a sweep over apps.json
IpcCheck(c, storeThrows, stampThrows) ==
  CheckForUpdates(c, Catalog, storeThrows, stampThrows)

\* the interval callback of startPeriodicCheck: checkForUpdates() without
\* definitions, unless a sweep is in progress
PeriodicCheck(c, storeThrows, stampThrows) ==
  /\ ~SweepInProgress(isChecking)
  /\ CheckForUpdates(c, <<>>, storeThrows, stampThrows)

\* startPeriodicCheck: the immediate checkForUpdates() before the interval
\* is set, without definitions and without a look at isChecking
StartPeriodicCheck(c, storeThrows, stampThrows) ==
  CheckForUpdates(c, <<>>, storeThrows, stampThrows)

\* getAppReleaseInfo resolves for the app being checked
ReleaseResolved(c, stampThrows) ==
  /\ sweeps[c].pc = "awaiting"
  /\ LET sw == sweeps[c]
         x == Head(sw.defs)
         latestVersion == latest[x]
         installedVersion == sw.installedApps[x].installedVersion
         comparison == compareVersions(latestVersion, installedVersion)
         found == IF comparison > 0
                  THEN Append(sw.found,
                              UpdateEntry(x, sw.installedApps, latestVersion))
                  ELSE sw.found
     IN SweepOn(c, [sw EXCEPT !.defs = Tail(sw.defs), !.found = found],
                stampThrows, storeChanged)
  /\ UNCHANGED <<latest, storeApps>>
  /\ UNCHANGED <<activeInstallations, activeDownloads, tempFiles, slot>>
  /\ UNCHANGED <<cacheVars, launchVars, locatorVars, otherVars>>

\* a faulty handling of the rejection that lets it end the sweep
ReleaseFailsAborts(c, stampThrows) ==
  /\ sweeps[c].pc = "awaiting"
  /\ sweeps' = [sweeps EXCEPT ![c] = [FreshSweep EXCEPT !.pc = "done",
                                                       !.outcome = "threw"]]
  /\ isChecking' = FALSE
  /\ storeChanged' = TRUE
  /\ UNCHANGED <<lastUpdateCheck, latest, storeApps>>
  /\ UNCHANGED <<activeInstallations, activeDownloads, tempFiles, slot>>
  /\ UNCHANGED <<cacheVars, launchVars, locatorVars, otherVars>>

\* getAppReleaseInfo rejects: logged, the sweep goes on with the next app
ReleaseFails(c, stampThrows) ==
  /\ sweeps[c].pc = "awaiting"
  /\ LET sw == sweeps[c]
         x == Head(sw.defs)
     IN SweepOn(c, [sw EXCEPT !.defs = Tail(sw.defs),
                              !.failed = sw.failed \cup {x}],
                stampThrows, TRUE)
  /\ UNCHANGED <<latest, storeApps>>
  /\ UNCHANGED <<activeInstallations, activeDownloads, tempFiles, slot>>
  /\ UNCHANGED <<cacheVars, launchVars, locatorVars, otherVars>>

\* the installed version of a record changes (another version is installed,
\* or the store file is edited)
RecordChanged(x, v) ==
  /\ storeApps[x] # NoRecord
  /\ storeApps[x].installedVersion # v
  /\ storeApps' = [storeApps EXCEPT ![x] = SweepRecord(v)]
  /\ storeChanged' = TRUE
  /\ UNCHANGED <<isChecking, lastUpdateCheck, latest, sweeps>>
  /\ UNCHANGED <<activeInstallations, activeDownloads, tempFiles, slot>>
  /\ UNCHANGED <<cacheVars, launchVars, locatorVars, otherVars>>

\* ------------------------------------------------------------------------
\* Release resolver: version and asset of a fetched release
\* (GitHubService.getAppReleaseInfo, getBestWindowsAsset)
\* ------------------------------------------------------------------------
\* asset names of a release
exeAsset == <<"a", "p", "p", "-", "2", ".", "3", ".", "0", ".", "e", "x", "e">>
msiAsset == <<"a", "p", "p", "-", "2", ".", "3", ".", "0", ".", "m", "s", "i">>
zipAsset == <<"a", "p", "p", "-", "2", ".", "3", ".", "0", ".", "z", "i", "p">>
winZipAsset == <<"A", "p", "p", "-", "W", "i", "n", ".", "Z", "i", "p">>
AssetNames == {exeAsset, msiAsset, zipAsset, winZipAsset}
\* release.assets: distinct names, in the order the API lists them
AssetLists ==
  {l \in UNION {[1..n -> AssetNames] : n \in 0..MaxAssets} :
     \A i, j \in DOMAIN l : i # j => l[i] # l[j]}
\* release.tag_name
TagNames ==
  {<<"v", "2", ".", "3", ".", "0">>, <<"2", ".", "3", ".", "0">>,
   <<"v", "v", "1">>}
NoAsset == <<>>
dotMsi == <<".", "m", "s", "i">>
dotZip == <<".", "z", "i", "p">>
win == <<"w", "i", "n">>

filterWindowsAssets(assets) ==
  SelectSeq(assets, LAMBDA a :
    \/ endsWith(toLowerCase(a), dotExe)
    \/ endsWith(toLowerCase(a), dotMsi)
    \/ endsWith(toLowerCase(a), dotZip) /\ includes(toLowerCase(a), win))

\* a faulty choice that takes the first Windows asset whatever its kind
firstWindowsAsset(assets) ==
  IF filterWindowsAssets(assets) = <<>> THEN NoAsset
  ELSE Head(filterWindowsAssets(assets))

getBestWindowsAsset(assets) ==
  LET windowsAssets == filterWindowsAssets(assets)
      exePos == {i \in DOMAIN windowsAssets :
                   endsWith(toLowerCase(windowsAssets[i]), dotExe)}
      msiPos == {i \in DOMAIN windowsAssets :
                   endsWith(toLowerCase(windowsAssets[i]), dotMsi)}
  IN IF windowsAssets = <<>> THEN NoAsset
     ELSE IF exePos # {} THEN FirstWhere(windowsAssets, exePos)
     ELSE IF msiPos # {} THEN FirstWhere(windowsAssets, msiPos)
     ELSE windowsAssets[1]

NoRelease == [pc |-> "idle", tag |-> <<>>, assets |-> <<>>,
              version |-> <<>>, asset |-> NoAsset]
\* getAppReleaseInfo after getLatestRelease resolved
ReleaseInfoStep ==
  /\ rel.pc = "fetched"
  /\ rel' = [rel EXCEPT !.pc = "returned",
                        !.version = stripV(rel.tag),
                        !.asset = getBestWindowsAsset(rel.assets)]
  /\ UNCHANGED <<installVars, cacheVars, launchVars, locatorVars, sweepVars>>
  /\ UNCHANGED <<compareVars, progressVars, phaseVars, pollVars, scanVars, lateVars>>

\* ------------------------------------------------------------------------
\* Progress events of one transfer (DownloadManager.downloadFile from the
\* request on).  The body arrives in chunks of one byte.  The 'finish'
\* handler of the file only asks for the file to be closed; the task is
\* removed, the last event delivered and the promise resolved in the close
\* callback, a later turn of the event loop.
\*   pc        "idle", "waiting" (request sent), "streaming" (status 200),
\*             "closing" (file finished, close pending), "closed",
\*             "stopped" (request destroyed or answered badly)
\*   promise   "pending", "resolved", "rejected"
\*   task      activeDownloads has the app
\*   cancelled cancelDownload returned true for this transfer
\*   events    what progressCallback was called with; by: the handler that
\*             called it
\* ------------------------------------------------------------------------
NoDownload ==
  [pc |-> "idle", promise |-> "pending", task |-> FALSE, cancelled |-> FALSE,
   totalBytes |-> 0, receivedBytes |-> 0, events |-> <<>>]

\* the progress event of a 'data' handler
DataEvent(receivedBytes, totalBytes) ==
  [by |-> "data", progress |-> (receivedBytes * 100) \div totalBytes,
   bytesReceived |-> receivedBytes, bytesTotal |-> totalBytes]
\* the progress event of the close callback
FinalEvent(totalBytes) ==
  [by |-> "close", progress |-> 100,
   bytesReceived |-> totalBytes, bytesTotal |-> totalBytes]

\* what a step of this call leaves alone
notProgressVars ==
  <<installVars, cacheVars, launchVars, locatorVars, sweepVars,
    compareVars, resolverVars, phaseVars, pollVars, scanVars, lateVars>>

\* https.get is called
DlRequest ==
  /\ dl.pc = "idle"
  /\ dl' = [dl EXCEPT !.pc = "waiting"]
  /\ UNCHANGED notProgressVars

\* response with status 200 and content-length n: the task is registered
DlResponse(n) ==
  /\ dl.pc = "waiting"
  /\ dl' = [dl EXCEPT !.pc = "streaming", !.task = TRUE, !.totalBytes = n]
  /\ UNCHANGED notProgressVars

\* response with another status (not a redirect): reject
DlRefused ==
  /\ dl.pc = "waiting"
  /\ dl' = [dl EXCEPT !.pc = "stopped", !.promise = "rejected"]
  /\ UNCHANGED notProgressVars

\* response 'data'; due: 200 ms have passed since the last event
DlData(due) ==
  /\ dl.pc = "streaming"
  /\ dl.receivedBytes < dl.totalBytes
  /\ dl' = [dl EXCEPT
       !.receivedBytes = @ + 1,
       !.events = IF due
                  THEN Append(@, DataEvent(dl.receivedBytes + 1, dl.totalBytes))
                  ELSE @]
  /\ UNCHANGED notProgressVars

\* file 'finish' after the whole body was written: file.close(callback)
DlFileFinish ==
  /\ dl.pc = "streaming"
  /\ dl.receivedBytes = dl.totalBytes
  /\ dl' = [dl EXCEPT !.pc = "closing"]
  /\ UNCHANGED notProgressVars

\* the close callback: the task is removed, the 100% event delivered, the
\* promise resolved
DlFileClosed ==
  /\ dl.pc = "closing"
  /\ dl' = [dl EXCEPT !.pc = "closed", !.task = FALSE,
                      !.events = Append(@, FinalEvent(dl.totalBytes)),
                      !.promise = IF @ = "pending" THEN "resolved" ELSE @]
  /\ UNCHANGED notProgressVars

\* request 'error': the task is removed, reject
DlRequestError ==
  /\ dl.pc \in {"waiting", "streaming"}
  /\ dl' = [dl EXCEPT !.pc = "stopped", !.task = FALSE, !.promise = "rejected"]
  /\ UNCHANGED notProgressVars

\* the 30 s timeout: the request is destroyed, reject
DlTimedOut ==
  /\ dl.pc \in {"waiting", "streaming"}
  /\ dl' = [dl EXCEPT !.pc = "stopped", !.promise = "rejected",
                      !.task = IF dl.pc = "waiting" THEN FALSE ELSE @]
  /\ UNCHANGED notProgressVars

\* cancelDownload with the task present: the request is destroyed (a body
\* still arriving stops, a file already finished is closed all the same),
\* the file unlinked, the task removed; returns true
DlCancel ==
  /\ dl.task
  /\ dl' = [dl EXCEPT !.pc = IF @ = "streaming" THEN "stopped" ELSE @,
                      !.task = FALSE, !.cancelled = TRUE]
  /\ UNCHANGED notProgressVars

\* ------------------------------------------------------------------------
\* The phases of one locator call (InstallManager.findInstalledExecutable).
\* A search path is in one of these states:
\*   "missing"     it does not exist
\*   "empty"       it exists and holds no .exe at any depth
\*   "nested"      it holds .exe files in subdirectories only
\*   "choice"      it holds .exe files at its top level
\*   "unreadable"  it exists and listing it throws
\*   pc       "idle", "registry" (awaiting findAppInRegistry), "returned",
\*            "threw"
\*   phases   the phases the call has entered, in order
\*   registry what the registry search came to
\*   result   the path returned or the error thrown
\* ------------------------------------------------------------------------
DirStates == {"missing", "empty", "nested", "choice", "unreadable"}
SearchPaths == UNION {[1..n -> DirStates] : n \in 1..MaxDirs}
NoSearch ==
  [pc |-> "idle", dirs |-> <<>>, phases |-> <<>>, registry |-> "none",
   result |-> [kind |-> "none"]]
\* the errors a locator call ends with
ReadError == [kind |-> "error", name |-> "ReadError"]
ExecutableNotFound == [kind |-> "error", name |-> "ExecutableNotFound"]

\* a faulty phase 1 that looks at the first search path only
nonRecursiveFirst(dirs, i) ==
  IF dirs[1] = "choice" THEN [kind |-> "path", phase |-> "nonRecursive", dir |-> 1]
  ELSE IF dirs[1] = "unreadable" THEN [kind |-> "error", dir |-> 1]
  ELSE [kind |-> "nothing"]

\* phase 1 from search path i on: the first path that exists decides if
\* listing it throws or it has an .exe at its top level
RECURSIVE nonRecursive(_, _)
nonRecursive(dirs, i) ==
  IF i > Len(dirs) THEN [kind |-> "nothing"]
  ELSE IF dirs[i] = "choice"
       THEN [kind |-> "path", phase |-> "nonRecursive", dir |-> i]
  ELSE IF dirs[i] = "unreadable" THEN [kind |-> "error", dir |-> i]
  ELSE nonRecursive(dirs, i + 1)

\* phase 2 from search path i on: findExecutablesRecursive swallows the
\* errors of listing
RECURSIVE recursive(_, _)
recursive(dirs, i) ==
  IF i > Len(dirs) THEN [kind |-> "nothing"]
  ELSE IF dirs[i] \in {"nested", "choice"}
       THEN [kind |-> "path", phase |-> "recursive", dir |-> i]
  ELSE recursive(dirs, i + 1)

\* findInstalledExecutable after the registry phase, to its return or throw
searchDisk(l) ==
  LET first == nonRecursive(l.dirs, 1) IN
    IF first.kind = "path"
    THEN [l EXCEPT !.pc = "returned", !.result = first,
                   !.phases = Append(@, "nonRecursive")]
    ELSE IF first.kind = "error"
    THEN [l EXCEPT !.pc = "threw", !.result = ReadError,
                   !.phases = Append(@, "nonRecursive")]
    ELSE LET second == recursive(l.dirs, 1) IN
           IF second.kind = "path"
           THEN [l EXCEPT !.pc = "returned", !.result = second,
                          !.phases = @ \o <<"nonRecursive", "recursive">>]
           ELSE [l EXCEPT !.pc = "threw", !.result = ExecutableNotFound,
                          !.phases = @ \o <<"nonRecursive", "recursive">>]

\* what a step of this call leaves alone
notPhasesVars ==
  <<installVars, cacheVars, launchVars, locatorVars, sweepVars,
    compareVars, resolverVars, progressVars, pollVars, scanVars, lateVars>>

\* findInstalledExecutable is called: up to the await of findAppInRegistry
FindInstalledExecutable ==
  /\ loc.pc = "given"
  /\ loc' = [loc EXCEPT !.pc = "registry", !.phases = <<"registry">>]
  /\ UNCHANGED notPhasesVars

\* the registry search resolves with a path
RegistryFound ==
  /\ loc.pc = "registry"
  /\ loc' = [loc EXCEPT !.pc = "returned", !.registry = "path",
                        !.result = [kind |-> "path", phase |-> "registry",
                                    dir |-> 0]]
  /\ UNCHANGED notPhasesVars

\* the registry search resolves with null, or rejects and the error is
\* logged: the search goes on on disk
RegistryNothing(failed) ==
  /\ loc.pc = "registry"
  /\ loc' = searchDisk([loc EXCEPT
                          !.registry = IF failed THEN "error" ELSE "null"])
  /\ UNCHANGED notPhasesVars

\* ------------------------------------------------------------------------
\* One polling call (InstallManager.findInstalledExecutableWithPolling).
\*   pc       "idle", "attempting" (awaiting findInstalledExecutable),
\*            "waiting" (awaiting the delay), "returned", "threw"
\*   attempt  the loop variable
\*   calls    the locator calls made
\*   waits    the delays started
\*   slept    the milliseconds of the delays started
\*   errors   what the failed attempts threw, in order
\* ------------------------------------------------------------------------
NoPolling ==
  [pc |-> "idle", maxAttempts |-> 0, delayMs |-> 0, attempt |-> 0,
   calls |-> 0, waits |-> 0, slept |-> 0,
   errors |-> <<>>, result |-> [kind |-> "none"]]
\* the delays the callers ask for: after an installer run, after a zip
\* extraction
Delays == {3000, 500}
\* what a locator call can resolve with, and reject with
FoundPaths ==
  {[kind |-> "path", phase |-> ph, dir |-> 1] :
     ph \in {"registry", "nonRecursive", "recursive"}}
LocatorErrors == {ExecutableNotFound, ReadError}

\* a faulty test that retries after the last attempt too
retryAlways(attempt, maxAttempts) == attempt <= maxAttempts

\* the test of the catch block: another attempt follows
retry(attempt, maxAttempts) == attempt < maxAttempts

\* what a step of this call leaves alone
notPollingVars ==
  <<installVars, cacheVars, launchVars, locatorVars, sweepVars,
    compareVars, resolverVars, progressVars, phaseVars, scanVars, lateVars>>

\* the call: the first attempt starts
FindWithPolling ==
  /\ poll.pc = "given"
  /\ poll' = [poll EXCEPT !.pc = "attempting", !.attempt = 1, !.calls = 1]
  /\ UNCHANGED notPollingVars

\* the attempt resolves: its path is returned
AttemptFound(found) ==
  /\ poll.pc = "attempting"
  /\ poll' = [poll EXCEPT !.pc = "returned", !.result = found]
  /\ UNCHANGED notPollingVars

\* the attempt rejects: the delay starts, or, after the last attempt, the
\* error is thrown on
AttemptThrows(error) ==
  /\ poll.pc = "attempting"
  /\ poll' = IF retry(poll.attempt, poll.maxAttempts)
             THEN [poll EXCEPT !.pc = "waiting", !.waits = @ + 1,
                               !.slept = @ + poll.delayMs,
                               !.errors = Append(@, error)]
             ELSE [poll EXCEPT !.pc = "threw", !.result = error,
                               !.errors = Append(@, error)]
  /\ UNCHANGED notPollingVars

\* the delay is over: the next attempt starts
DelayOver ==
  /\ poll.pc = "waiting"
  /\ poll' = [poll EXCEPT !.pc = "attempting", !.attempt = @ + 1,
                          !.calls = @ + 1]
  /\ UNCHANGED notPollingVars

\* ------------------------------------------------------------------------
\* The startup scan (AutoDetectService.scanForInstalledApps) over apps.json.
\*   pc        "idle", "awaiting" (findInstalledExecutable pending for the
\*             first entry of rest), "done"
\*   rest      the entries not yet finished, the current one first
\*   names     the name variations still to try for the current entry, the
\*             one being tried included
\*   detected, skipped, errors   the report
\* ------------------------------------------------------------------------
NoScan ==
  [pc |-> "idle", rest |-> <<>>, names |-> 0,
   detected |-> <<>>, skipped |-> <<>>, errors |-> <<>>]

\* where the locator, given no hint, finds the executable of an app, and
\* where a record can say it was
globalExe(x) == <<"C:", "Program Files", x, "app.exe">>
goneExe(x) == <<"C:", "Old", x, "app.exe">>
\* the records the store can hold for x at startup
StartupRecords(x) ==
  {NoRecord} \cup
  {AppRecord("2.0.0", [installPath |-> dirname(e), executablePath |-> e]) :
     e \in {globalExe(x), goneExe(x)}} \cup
  {AppRecord("2.0.0", [installPath |-> baseInstallDir, executablePath |-> NoPath])}

\* generateNameVariations: how many names it gives for the entry (the name
\* itself, and for "App Two (Beta)" also "App Two" and "App")
nameVariations(x) == IF x = "app1" THEN 1 ELSE 3

\* the record the scan writes for a detected app
DetectedRecord(executablePath) ==
  [installedVersion |-> "unknown", installPath |-> dirname(executablePath),
   executablePath |-> executablePath, autoDetected |-> TRUE]

\* a faulty test that trusts every record
recordPresent(record, disk) == TRUE

\* the test of the scan on a record: its executable still exists
recordValid(record, disk) ==
  record.executablePath # NoPath /\ record.executablePath \in disk

\* the loop runs on from the first entry of sc.rest to its next await, or to
\* the end of the scan: [scan, store] after it
RECURSIVE ScanOn(_, _, _)
ScanOn(sc, store, disk) ==
  IF sc.rest = <<>>
  THEN [scan |-> [sc EXCEPT !.pc = "done"], store |-> store]
  ELSE LET x == Head(sc.rest) IN
         IF store[x] # NoRecord /\ recordValid(store[x], disk)
         THEN ScanOn([sc EXCEPT !.rest = Tail(@),
                                !.skipped = Append(@, x)], store, disk)
         ELSE [scan |-> [sc EXCEPT !.pc = "awaiting",
                                   !.names = nameVariations(x)],
               store |-> [store EXCEPT ![x] = NoRecord]]

\* what a scan step leaves alone
notScanVars ==
  <<activeInstallations, activeDownloads, tempFiles, slot, cacheVars,
    runningProcesses, procs, spawned, lastCall, reads, locatorVars, sweepVars,
    compareVars, resolverVars, progressVars, phaseVars, pollVars, lateVars>>

\* scanForInstalledApps(appsData) up to its first await or its return
ScanForInstalledApps ==
  /\ scan.pc = "idle"
  /\ LET res == ScanOn([NoScan EXCEPT !.rest = Catalog], storeApps, diskFiles) IN
       /\ scan' = res.scan
       /\ storeApps' = res.store
  /\ UNCHANGED <<diskFiles, notScanVars>>

\* the locator resolves for the current entry: the record is written, the
\* entry reported as detected
ScanLocatorFound(found) ==
  /\ scan.pc = "awaiting"
  /\ found = globalExe(Head(scan.rest))
  /\ found \in diskFiles
  /\ LET x == Head(scan.rest)
         res == ScanOn([scan EXCEPT
                          !.rest = Tail(@), !.names = 0,
                          !.detected = Append(@, [appId |-> x,
                                                  executablePath |-> found])],
                       [storeApps EXCEPT ![x] = DetectedRecord(found)],
                       diskFiles)
     IN /\ scan' = res.scan
        /\ storeApps' = res.store
  /\ UNCHANGED <<diskFiles, notScanVars>>

\* the locator rejects for the name tried: the next name is tried, or,
\* after the last one, the entry is left as not found
ScanLocatorThrows ==
  /\ scan.pc = "awaiting"
  /\ IF scan.names > 1
     THEN /\ scan' = [scan EXCEPT !.names = @ - 1]
          /\ UNCHANGED storeApps
     ELSE LET res == ScanOn([scan EXCEPT !.rest = Tail(@), !.names = 0],
                            storeApps, diskFiles)
          IN /\ scan' = res.scan
             /\ storeApps' = res.store
  /\ UNCHANGED <<diskFiles, notScanVars>>

\* an install of x asked for over IPC completes meanwhile: the executable is
\* on disk and installApp writes its record
InstallRecorded(x) ==
  /\ scan.pc # "done"
  /\ storeApps[x] = NoRecord
  /\ diskFiles' = diskFiles \cup {globalExe(x)}
  /\ storeApps' = [storeApps EXCEPT ![x] =
       AppRecord("2.0.0", [installPath |-> dirname(globalExe(x)),
                           executablePath |-> globalExe(x)])]
  /\ UNCHANGED <<scan, notScanVars>>

\* ------------------------------------------------------------------------
\* The search paths of one locator call (findInstalledExecutable), from the
\* hint and the names it is given.  A path is the sequence of its
\* components; the empty string is the empty sequence.
\*   pc      "idle", "given", "registry", "phase1", "phase2", "returned",
\*           "threw"
\*   list    the search paths of the phase under way
\*   i       the index of the next path to probe
\*   probed  the paths handed to fs.existsSync so far
\* ------------------------------------------------------------------------
NoWalk ==
  [pc |-> "idle", installDir |-> <<>>, appName |-> "", appId |-> "",
   list |-> <<>>, i |-> 0, probed |-> {}]

\* the names of the catalog entries, and what generateNameVariations makes
\* of them: the name, without its parenthesis, its first word
generateNameVariations(x) ==
  IF x = "app1" THEN <<"app1">>
  ELSE <<"Beta Tool (Test)", "Beta Tool", "Beta">>

\* the roots of the machine-wide and per-user program directories
programFiles == <<"C:", "Program Files">>
programFilesX86 == <<"C:", "Program Files (x86)">>
localAppData == <<"C:", "Users", "me", "AppData", "Local">>
appData == <<"C:", "Users", "me", "AppData", "Roaming">>

\* path.join of a directory and a name: empty segments are dropped
pathJoin(dir, name) == dir \o <<name>>

\* [...new Set(q)]: the first occurrence of every element
RECURSIVE unique(_)
unique(q) ==
  IF q = <<>> THEN <<>>
  ELSE LET front == unique(SubSeq(q, 1, Len(q) - 1))
           last == q[Len(q)]
       IN IF \E j \in DOMAIN front : front[j] = last
          THEN front ELSE Append(front, last)

\* [appName, repoName, appId] without the null repoName and duplicates
searchNames(appName, appId) == unique(<<appName, appId>>)

\* the paths pushed in the loop over the names, phase 1
RECURSIVE namedSearchPaths(_, _)
namedSearchPaths(installDir, names) ==
  IF names = <<>> THEN <<>>
  ELSE <<pathJoin(installDir, Head(names)),
         pathJoin(programFiles, Head(names)),
         pathJoin(programFilesX86, Head(names)),
         pathJoin(localAppData, Head(names)),
         pathJoin(appData, Head(names)),
         pathJoin(localAppData \o <<"Programs">>, Head(names))>>
       \o namedSearchPaths(installDir, Tail(names))

\* uniqueSearchPaths
uniqueSearchPaths(installDir, names) ==
  unique(Append(namedSearchPaths(installDir, names), installDir))

\* the paths pushed in the loop over the names, phase 2
RECURSIVE namedRecursivePaths(_)
namedRecursivePaths(names) ==
  IF names = <<>> THEN <<>>
  ELSE <<pathJoin(programFiles, Head(names)),
         pathJoin(programFilesX86, Head(names)),
         pathJoin(localAppData, Head(names)),
         pathJoin(appData, Head(names))>>
       \o namedRecursivePaths(Tail(names))

\* uniqueRecursiveSearchPaths
uniqueRecursiveSearchPaths(installDir, names) ==
  unique(<<installDir>> \o namedRecursivePaths(names))

\* what a step of this call leaves alone
notWalkVars ==
  <<installVars, cacheVars, launchVars, locatorVars, sweepVars,
    compareVars, resolverVars, progressVars, phaseVars, pollVars, scanVars,
    ticker>>

\* the call, up to the await of the registry search
WalkCall ==
  /\ walk.pc = "given"
  /\ walk' = [walk EXCEPT !.pc = "registry"]
  /\ UNCHANGED notWalkVars

\* the registry search gave a path
WalkRegistryFound ==
  /\ walk.pc = "registry"
  /\ walk' = [walk EXCEPT !.pc = "returned"]
  /\ UNCHANGED notWalkVars

\* the registry search gave nothing: the phase 1 paths are built
WalkRegistryNothing ==
  /\ walk.pc = "registry"
  /\ walk' = [walk EXCEPT
       !.pc = "phase1", !.i = 1,
       !.list = uniqueSearchPaths(walk.installDir,
                                  searchNames(walk.appName, walk.appId))]
  /\ UNCHANGED notWalkVars

\* fs.existsSync on the next path of the phase; hit: the path exists and
\* holds an executable, which is returned.  After the last path of phase 1
\* the phase 2 paths are built, after the last of phase 2 the call throws.
\* The empty path never exists.
WalkProbe(hit) ==
  /\ walk.pc \in {"phase1", "phase2"}
  /\ LET path == walk.list[walk.i]
         seen == [walk EXCEPT !.probed = @ \cup {path}]
     IN IF hit /\ path # <<>>
        THEN walk' = [seen EXCEPT !.pc = "returned"]
        ELSE IF walk.i < Len(walk.list)
        THEN walk' = [seen EXCEPT !.i = @ + 1]
        ELSE IF walk.pc = "phase1"
        THEN walk' = [seen EXCEPT
               !.pc = "phase2", !.i = 1,
               !.list = uniqueRecursiveSearchPaths(
                          walk.installDir,
                          searchNames(walk.appName, walk.appId))]
        ELSE walk' = [seen EXCEPT !.pc = "threw"]
  /\ UNCHANGED notWalkVars

\* ------------------------------------------------------------------------
\* The periodic timer (UpdateChecker.startPeriodicCheck, stopPeriodicCheck)
\* and the settings it reads (ipcMain 'settings:update').
\*   checkInterval  the timer handle the checker holds, 0 for null
\*   armed          the timers setInterval made and clearInterval has not
\*                  cleared, each with its handle and its interval
\*   made           how many timers were made
\*   settings       the stored settings
\*   lastFired      the interval of the timer whose callback ran last, 0
\*                  before any
\* ------------------------------------------------------------------------
defaultInterval == 3600000
Intervals == {60000, 1800000, defaultInterval}
NoTicker ==
  [checkInterval |-> 0, armed |-> {}, made |-> 0, lastFired |-> 0,
   settings |-> [checkUpdateInterval |-> defaultInterval, autoUpdate |-> TRUE]]
\* what the renderer sends to settings:update
NewSettings ==
  [checkUpdateInterval : Intervals] \cup [autoUpdate : BOOLEAN] \cup
  [checkUpdateInterval : Intervals, autoUpdate : BOOLEAN]

\* updateSettings: the new keys over the stored ones
mergeSettings(current, new) ==
  [k \in DOMAIN current |-> IF k \in DOMAIN new THEN new[k] ELSE current[k]]

\* a faulty stop that forgets the handle without clearing the timer
stopForgets(t) == [t EXCEPT !.checkInterval = 0]

\* stopPeriodicCheck
stopPeriodicCheck(t) ==
  IF t.checkInterval # 0
  THEN [t EXCEPT !.armed = {a \in @ : a.handle # t.checkInterval},
                 !.checkInterval = 0]
  ELSE t

\* startPeriodicCheck: the interval is read, the timer in hand stopped, a new
\* one set (the immediate sweep is CheckForUpdates above)
startPeriodicCheck(t) ==
  LET interval == t.settings.checkUpdateInterval
      stopped == stopPeriodicCheck(t)
  IN [stopped EXCEPT !.made = @ + 1, !.checkInterval = t.made + 1,
                     !.armed = @ \cup {[handle |-> t.made + 1,
                                       interval |-> interval]}]

\* what a timer or settings step leaves alone
notTickerVars ==
  <<installVars, cacheVars, launchVars, locatorVars, sweepVars,
    compareVars, resolverVars, progressVars, phaseVars, pollVars, scanVars,
    walk>>

\* the startup sequence or anyone else starts the periodic check
TimerStart ==
  /\ ticker.made < MaxArms
  /\ ticker' = startPeriodicCheck(ticker)
  /\ UNCHANGED notTickerVars

\* the periodic check is stopped
TimerStop ==
  /\ ticker' = stopPeriodicCheck(ticker)
  /\ UNCHANGED notTickerVars

\* an armed timer runs its callback (PeriodicCheck above)
TimerFires ==
  /\ \E a \in ticker.armed : ticker' = [ticker EXCEPT !.lastFired = a.interval]
  /\ UNCHANGED notTickerVars

\* ipcMain 'settings:update': the settings are merged and stored; if the new
\* ones carry an interval the periodic check is started again
SettingsUpdate(newSettings) ==
  /\ ticker.made < MaxArms
  /\ LET stored == [ticker EXCEPT
                      !.settings = mergeSettings(@, newSettings)]
     IN ticker' = IF "checkUpdateInterval" \in DOMAIN newSettings
                  THEN startPeriodicCheck(stored)
                  ELSE stored
  /\ UNCHANGED notTickerVars

\* ------------------------------------------------------------------------
\* Specifications
\* ------------------------------------------------------------------------
InitInstall ==
  /\ activeInstallations = {}
  /\ activeDownloads = [x \in Apps |-> NoTask]
  /\ storeApps = [x \in Apps |-> NoRecord]
  /\ tempFiles = {}
  /\ slot = [r \in Slots |-> FreshSlot]

InitCache ==
  /\ cache = [x \in Apps |-> NoEntry]
  /\ now = 0
  /\ gv = [c \in Slots |-> FreshCall]

\* no child spawned yet; the executables installs can record are on disk
InitLaunch ==
  /\ runningProcesses = [x \in Apps |-> NoProc]
  /\ procs = [p \in Handles |-> NoChild]
  /\ spawned = 0
  /\ lastCall = NoCall
  /\ reads = [r \in Slots |-> FreshRead]

\* no directory probe under way
InitLocatorIdle == probe = NoProbe

\* the update checker after construction
InitSweepIdle ==
  /\ isChecking = FALSE
  /\ lastUpdateCheck = 0
  /\ sweeps = [c \in Slots |-> FreshSweep]
  /\ storeChanged = TRUE

\* no call of a pure function under way
\* no call of the later sections under way
InitLateIdle == walk = NoWalk /\ ticker = NoTicker

InitOtherIdle ==
  /\ cmp = NoCompare
  /\ rel = NoRelease
  /\ dl = NoDownload
  /\ loc = NoSearch
  /\ poll = NoPolling
  /\ scan = NoScan
  /\ InitLateIdle

Init ==
  /\ InitInstall
  /\ InitCache
  /\ InitLaunch
  /\ InitLocatorIdle
  /\ InitSweepIdle
  /\ InitOtherIdle
  /\ latest \in [CatalogIds -> {"1.10.0"}]
  /\ diskFiles = UNION {LocatorPaths(x) : x \in Apps} \cup DialogPaths

\* the launcher starts on whatever an earlier session left in the store file
\* and on the disk
InitLauncher ==
  /\ activeInstallations = {}
  /\ activeDownloads = [x \in Apps |-> NoTask]
  /\ tempFiles = {}
  /\ slot = [r \in Slots |-> FreshSlot]
  /\ storeApps \in [Apps -> UNION {PersistedRecords(x) : x \in Apps}]
  /\ \A x \in Apps : storeApps[x] \in PersistedRecords(x)
  /\ diskFiles \in SUBSET {RecordedExe(x) : x \in Apps}
  /\ InitCache
  /\ InitLaunch
  /\ InitLocatorIdle
  /\ InitSweepIdle
  /\ InitOtherIdle
  /\ latest \in [CatalogIds -> {"1.10.0"}]

\* the steps of a running install or uninstall
InstallSteps ==
  \/ \E r \in Slots : InstallerCloseOk(r)
  \/ \E r \in Slots, err \in {"InstallationFailed", "InstallerStartFailed"} :
       InstallerFails(r, err)
  \/ \E r \in Slots : SettleDone(r)
  \/ \E r \in Slots : \E found \in LocatorPaths(slot[r].app) : PollFound(r, found)
  \/ \E r \in Slots : PollNotFound(r)
  \/ \E r \in Slots : PromptCancelled(r)
  \/ \E r \in Slots, selected \in DialogPaths : PromptSelected(r, selected)
  \/ \E r \in Slots : PromptThrows(r)
  \/ \E r \in Slots : \E found \in LocatorPaths(slot[r].app) : ZipPollFound(r, found)
  \/ \E r \in Slots : ZipPollNotFound(r)
  \/ \E r \in Slots, hasUninstaller \in BOOLEAN : UninstallAppCall(r, hasUninstaller)
  \/ \E r \in Slots, code \in {0, 1, -1} : UninstallerClose(r, code)

\* the install manager under direct callers
NextInstall ==
  \/ \E r \in Slots, x \in Apps, e \in InstallerExts, v \in OptionVersions :
       CallInstall(r, x, e, v)
  \/ \E r \in Slots, x \in Apps : CallUninstall(r, x)
  \/ \E r \in Slots, extractOk \in BOOLEAN : InstallAppCall(r, extractOk)
  \/ InstallSteps

\* the IPC channels app:install and app:uninstall with the download manager
\* and the install manager behind them
NextIpc ==
  \/ \E r \in Slots, x \in Apps : IpcInstall(r, x)
  \/ \E r \in Slots, x \in Apps : CallUninstall(r, x)
  \/ \E r \in Slots, err \in {"ResolveFailed", "NoInstaller"} : ResolveFails(r, err)
  \/ \E r \in Slots, e \in AssetExts, v \in ReleaseVersions : ResolveOk(r, e, v)
  \/ \E r \in Slots : DlRedirect(r)
  \/ \E r \in Slots : DlBadStatus(r)
  \/ \E r \in Slots : DlResponseOk(r)
  \/ \E r \in Slots, extractOk \in BOOLEAN : DlFinish(r, extractOk)
  \/ \E r \in Slots : DlError(r)
  \/ \E r \in Slots : DlTimeout(r)
  \/ \E x \in Apps : CancelDownload(x)
  \/ \E r \in Slots : IpcComplete(r)
  \/ InstallSteps

Next == NextIpc

Spec == Init /\ [][Next]_vars

\* the version cache under concurrent callers
NextCache ==
  \/ \E c \in Slots, x \in Apps : GetLatestVersion(c, x)
  \/ \E c \in Slots, v \in ResolvedVersions : FetchOk(c, v)
  \/ \E c \in Slots : FetchFails(c)
  \/ \E d \in ClockSteps : Tick(d)

SpecCache == Init /\ [][NextCache]_vars

\* the launcher
NextLauncher ==
  \/ \E x \in Apps, spawnOk \in BOOLEAN : LaunchApp(x, spawnOk)
  \/ \E x \in Apps, refused \in BOOLEAN : KillApp(x, refused)
  \/ \E p \in Handles : ProcessExits(p)
  \/ \E p \in Handles : ChildGone(p)
  \/ \E f \in {RecordedExe(x) : x \in Apps} : ExeDeleted(f)

SpecLauncher == InitLauncher /\ [][NextLauncher]_vars

\* the app list read next to the launcher
NextRead ==
  \/ \E r \in Slots, x \in Apps : EnrichStart(r, x)
  \/ \E r \in Slots : EnrichFinish(r)
  \/ \E x \in Apps : LaunchApp(x, TRUE)
  \/ \E p \in Handles : ProcessExits(p)
  \/ \E p \in Handles : ChildGone(p)
  \/ \E f \in {RecordedExe(x) : x \in Apps} : ExeDeleted(f)

SpecRead == InitLauncher /\ [][NextRead]_vars

SpecInstall == Init /\ [][NextInstall]_vars

\* a probe of any directory listing for any app name
InitLocator ==
  /\ InitInstall
  /\ InitCache
  /\ InitLaunch
  /\ diskFiles = {}
  /\ InitSweepIdle
  /\ InitOtherIdle
  /\ latest \in [CatalogIds -> {"1.10.0"}]
  /\ probe \in {[pc |-> "listed", files |-> l, appName |-> n, chosen |-> NoFile] :
                  l \in Listings, n \in AppNames}

NextLocator == ProbeStep

SpecLocator == InitLocator /\ [][NextLocator]_vars

\* the update checker on any store an earlier session left and any latest
\* releases
InitSweep ==
  /\ activeInstallations = {}
  /\ activeDownloads = [x \in Apps |-> NoTask]
  /\ tempFiles = {}
  /\ slot = [r \in Slots |-> FreshSlot]
  /\ storeApps \in [CatalogIds ->
                      {NoRecord} \cup {SweepRecord(v) : v \in InstalledVersions}]
  /\ InitCache
  /\ InitLaunch
  /\ diskFiles = {}
  /\ InitLocatorIdle
  /\ InitSweepIdle
  /\ InitOtherIdle
  /\ latest \in [CatalogIds -> LatestVersions]

NextSweep ==
  \/ \E c \in Slots, storeThrows, stampThrows \in BOOLEAN :
       IpcCheck(c, storeThrows, stampThrows)
  \/ \E c \in Slots, storeThrows, stampThrows \in BOOLEAN :
       PeriodicCheck(c, storeThrows, stampThrows)
  \/ \E c \in Slots, storeThrows, stampThrows \in BOOLEAN :
       StartPeriodicCheck(c, storeThrows, stampThrows)
  \/ \E c \in Slots, stampThrows \in BOOLEAN : ReleaseResolved(c, stampThrows)
  \/ \E c \in Slots, stampThrows \in BOOLEAN : ReleaseFails(c, stampThrows)
  \/ \E x \in CatalogIds, v \in InstalledVersions : RecordChanged(x, v)

SpecSweep == InitSweep /\ [][NextSweep]_vars

\* the comparator on any two version texts
InitCompare ==
  /\ InitInstall
  /\ InitCache
  /\ InitLaunch
  /\ diskFiles = {}
  /\ InitLocatorIdle
  /\ InitSweepIdle
  /\ latest \in [CatalogIds -> {"1.10.0"}]
  /\ cmp \in {[NoCompare EXCEPT !.pc = "given", !.a = a, !.b = b] :
                a \in VersionNumbers, b \in VersionNumbers}
  /\ rel = NoRelease
  /\ dl = NoDownload
  /\ loc = NoSearch
  /\ poll = NoPolling
  /\ scan = NoScan
  /\ InitLateIdle

NextCompare == CompareStep

SpecCompare == InitCompare /\ [][NextCompare]_vars

\* the resolver on any fetched release
InitResolver ==
  /\ InitInstall
  /\ InitCache
  /\ InitLaunch
  /\ diskFiles = {}
  /\ InitLocatorIdle
  /\ InitSweepIdle
  /\ latest \in [CatalogIds -> {"1.10.0"}]
  /\ cmp = NoCompare
  /\ dl = NoDownload
  /\ loc = NoSearch
  /\ poll = NoPolling
  /\ scan = NoScan
  /\ InitLateIdle
  /\ rel \in {[NoRelease EXCEPT !.pc = "fetched", !.tag = t, !.assets = l] :
                t \in TagNames, l \in AssetLists}

NextResolver == ReleaseInfoStep

SpecResolver == InitResolver /\ [][NextResolver]_vars

\* one transfer and its progress events
InitProgress ==
  /\ InitInstall
  /\ InitCache
  /\ InitLaunch
  /\ diskFiles = {}
  /\ InitLocatorIdle
  /\ InitSweepIdle
  /\ latest \in [CatalogIds -> {"1.10.0"}]
  /\ InitOtherIdle

NextProgress ==
  \/ DlRequest
  \/ \E n \in 1..MaxChunks : DlResponse(n)
  \/ DlRefused
  \/ \E due \in BOOLEAN : DlData(due)
  \/ DlFileFinish
  \/ DlFileClosed
  \/ DlRequestError
  \/ DlTimedOut
  \/ DlCancel

SpecProgress == InitProgress /\ [][NextProgress]_vars

\* one locator call on any search paths
InitPhases ==
  /\ InitInstall
  /\ InitCache
  /\ InitLaunch
  /\ diskFiles = {}
  /\ InitLocatorIdle
  /\ InitSweepIdle
  /\ latest \in [CatalogIds -> {"1.10.0"}]
  /\ cmp = NoCompare
  /\ rel = NoRelease
  /\ dl = NoDownload
  /\ poll = NoPolling
  /\ scan = NoScan
  /\ InitLateIdle
  /\ loc \in {[NoSearch EXCEPT !.pc = "given", !.dirs = d] : d \in SearchPaths}

NextPhases ==
  \/ FindInstalledExecutable
  \/ RegistryFound
  \/ \E failed \in BOOLEAN : RegistryNothing(failed)

SpecPhases == InitPhases /\ [][NextPhases]_vars

\* one polling call with any maxAttempts
InitPolling ==
  /\ InitInstall
  /\ InitCache
  /\ InitLaunch
  /\ diskFiles = {}
  /\ InitLocatorIdle
  /\ InitSweepIdle
  /\ latest \in [CatalogIds -> {"1.10.0"}]
  /\ cmp = NoCompare
  /\ rel = NoRelease
  /\ dl = NoDownload
  /\ loc = NoSearch
  /\ scan = NoScan
  /\ InitLateIdle
  /\ poll \in {[NoPolling EXCEPT !.pc = "given", !.maxAttempts = n,
                                  !.delayMs = d] :
                 n \in 1..MaxAttempts, d \in Delays}

NextPolling ==
  \/ FindWithPolling
  \/ \E found \in FoundPaths : AttemptFound(found)
  \/ \E error \in LocatorErrors : AttemptThrows(error)
  \/ DelayOver

SpecPolling == InitPolling /\ [][NextPolling]_vars

\* the startup scan on any store and disk, with installs completing meanwhile
InitScan ==
  /\ activeInstallations = {}
  /\ activeDownloads = [x \in Apps |-> NoTask]
  /\ tempFiles = {}
  /\ slot = [r \in Slots |-> FreshSlot]
  /\ storeApps \in [CatalogIds -> UNION {StartupRecords(x) : x \in CatalogIds}]
  /\ \A x \in CatalogIds : storeApps[x] \in StartupRecords(x)
  /\ InitCache
  /\ runningProcesses = [x \in Apps |-> NoProc]
  /\ procs = [p \in Handles |-> NoChild]
  /\ spawned = 0
  /\ lastCall = NoCall
  /\ reads = [r \in Slots |-> FreshRead]
  /\ diskFiles \in SUBSET {globalExe(x) : x \in CatalogIds}
  /\ InitLocatorIdle
  /\ InitSweepIdle
  /\ latest \in [CatalogIds -> {"1.10.0"}]
  /\ InitOtherIdle

NextScan ==
  \/ ScanForInstalledApps
  \/ \E x \in CatalogIds : ScanLocatorFound(globalExe(x))
  \/ ScanLocatorThrows
  \/ \E x \in CatalogIds : InstallRecorded(x)

SpecScan == InitScan /\ [][NextScan]_vars

\* one locator call as the startup scan makes it (no hint, a name variation
\* of a catalog entry) or as an install makes it (the install directory)
InitWalk ==
  /\ InitInstall
  /\ InitCache
  /\ InitLaunch
  /\ diskFiles = {}
  /\ InitLocatorIdle
  /\ InitSweepIdle
  /\ latest \in [CatalogIds -> {"1.10.0"}]
  /\ cmp = NoCompare
  /\ rel = NoRelease
  /\ dl = NoDownload
  /\ loc = NoSearch
  /\ poll = NoPolling
  /\ scan = NoScan
  /\ ticker = NoTicker
  /\ walk \in UNION {{[NoWalk EXCEPT !.pc = "given", !.installDir = d,
                                      !.appId = x,
                                      !.appName = generateNameVariations(x)[k]] :
                        d \in {<<>>, baseInstallDir},
                        k \in DOMAIN generateNameVariations(x)} :
                      x \in CatalogIds}

NextWalk ==
  \/ WalkCall
  \/ WalkRegistryFound
  \/ WalkRegistryNothing
  \/ \E hit \in BOOLEAN : WalkProbe(hit)

SpecWalk == InitWalk /\ [][NextWalk]_vars

\* the periodic timer under starts, stops and settings updates
NextTimer ==
  \/ TimerStart
  \/ TimerStop
  \/ TimerFires
  \/ \E newSettings \in NewSettings : SettingsUpdate(newSettings)

SpecTimer == Init /\ [][NextTimer]_vars

\* ------------------------------------------------------------------------
\* Properties
\* ------------------------------------------------------------------------
\* the callers that are inside installApp for x, past its presence check
Installing(x) == {r \in Slots : slot[r].app = x /\ slot[r].pc \in InstallPc}

\* C1: an installApp call made while the identity has an entry in the
\* active-installation map fails with AlreadyInstalling, emits no status,
\* writes no AppRecord and leaves the entry of the first call in place.
C1_SecondInstallRejected ==
  [][\A r \in Slots :
       (/\ slot[r].pc = "callInstall"
        /\ slot'[r].pc # "callInstall"
        /\ slot[r].app \in activeInstallations)
       => /\ slot'[r].pc = "done"
          /\ slot'[r].outcome = "AlreadyInstalling"
          /\ slot'[r].statusLog = <<>>
          /\ storeApps' = storeApps
          /\ activeInstallations' = activeInstallations]_vars

\* C1 happens: a call was rejected with AlreadyInstalling while the call
\* that holds the entry is still running
C1_Witness ==
  \E r1, r2 \in Slots :
    /\ r1 # r2
    /\ slot[r1].app = slot[r2].app
    /\ slot[r1].pc \in InstallPc
    /\ slot[r1].app \in activeInstallations
    /\ slot[r2].op = "installApp"
    /\ slot[r2].pc = "done"
    /\ slot[r2].outcome = "AlreadyInstalling"
    /\ slot[r2].statusLog = <<>>

\* C2: once every installApp call for an identity is over, on whatever path
\* (a throw inside the manual-selection prompt included), the
\* active-installation map has no entry for the identity: an entry always
\* belongs to a call that is still running.
C2_EntryOnlyWhileInstalling ==
  \A x \in Apps : x \in activeInstallations => Installing(x) # {}

\* C3: an installApp call that passed the AlreadyInstalling check and is over
\* has emitted exactly one terminal status (completed or error), and that
\* status is the last one it emitted.
C3_OneTerminalStatus ==
  \A r \in Slots :
    (/\ slot[r].op = "installApp"
     /\ slot[r].pc = "done"
     /\ slot[r].outcome # "AlreadyInstalling")
    => /\ Len(slot[r].statusLog) > 0
       /\ slot[r].statusLog[Len(slot[r].statusLog)] \in Terminal
       /\ Cardinality({i \in 1..Len(slot[r].statusLog) :
                         slot[r].statusLog[i] \in Terminal}) = 1

\* C4: for one identity at most one download transfer is in flight, whether
\* it waits for its response, follows a redirect or streams.
C4_OneTransferPerApp ==
  \A x \in Apps :
    Cardinality({r \in Slots : slot[r].app = x /\ slot[r].pc \in DownloadPc}) <= 1

\* C5: for one identity an install and an uninstall are never in progress at
\* the same time.
C5_InstallExcludesUninstall ==
  \A r1, r2 \in Slots :
    ~(/\ slot[r1].app = slot[r2].app
      /\ slot[r1].pc \in InstallPc
      /\ slot[r2].pc = "uninstalling")

\* C6: of two app:install requests for one identity that are active together,
\* one fails fast: they never both get as far as owning a download or an
\* installer run.
C6_SecondRequestFailsFast ==
  \A r1, r2 \in Slots :
    (/\ r1 # r2
     /\ slot[r1].op = "app:install"
     /\ slot[r2].op = "app:install"
     /\ slot[r1].app = slot[r2].app)
    => ~(/\ slot[r1].pc \in DownloadPc \cup InstallPc
         /\ slot[r2].pc \in DownloadPc \cup InstallPc)

\* C7: when a download ends by transport error, by cancelDownload or by the
\* 30 s timeout, then right afterwards the active-download map has no entry
\* for the identity and the partial file is gone.
C7_CleanAfterAbort ==
  [][\A r \in Slots :
       (/\ slot[r].pc \in DownloadPc
        /\ slot'[r].dlEnd \in {"error", "cancel", "timeout"})
       => /\ activeDownloads'[slot[r].app] = NoTask
          /\ filePath(slot[r]) \notin tempFiles']_vars

\* the resolver has been called by the getLatestVersion call c
ResolverCalled(c) == gv[c].pc = "fetching" \/ gv[c].fetch # "none"

\* C8: a getLatestVersion call that found an entry with now - fetchedAt < ttl
\* returns the version of the entry without calling the resolver; one that
\* found an entry with now - fetchedAt = ttl calls the resolver.
C8_FreshServedExpiredRefetched ==
  \A c \in Slots :
    (gv[c].pc # "idle" /\ gv[c].cached # NoEntry)
    => /\ (gv[c].now - gv[c].cached.fetchedAt < gv[c].cached.ttl)
            => /\ gv[c].pc = "done"
               /\ ~ResolverCalled(c)
               /\ gv[c].result = gv[c].cached.version
       /\ (gv[c].now - gv[c].cached.fetchedAt = gv[c].cached.ttl)
            => ResolverCalled(c)

\* C8 happens: one call was served an entry of age > 0 from the cache while
\* another one, made exactly at the ttl boundary, is calling the resolver
C8_Witness ==
  \E c1, c2 \in Slots :
    /\ gv[c1].pc = "done"
    /\ gv[c1].cached # NoEntry
    /\ gv[c1].fetch = "none"
    /\ gv[c1].now > gv[c1].cached.fetchedAt
    /\ gv[c1].result = gv[c1].cached.version
    /\ gv[c2].pc = "fetching"
    /\ gv[c2].cached # NoEntry
    /\ gv[c2].now - gv[c2].cached.fetchedAt = gv[c2].cached.ttl

\* C9: when the refresh of a getLatestVersion call fails (the resolver
\* rejects or answers without a version): if the call found an expired
\* entry, the version of that entry is returned, never the fallback;
\* otherwise the fallback is stored with a ttl of one minute and returned.
C9_StaleBeforeFallback ==
  [][\A c \in Slots :
       (/\ gv[c].pc = "fetching"
        /\ gv'[c].pc = "done"
        /\ gv'[c].fetch \in {"error", "noVersion"})
       => IF gv[c].cached # NoEntry
          THEN gv'[c].result = gv[c].cached.version
          ELSE /\ gv'[c].result = fallbackVersion(gv[c].app)
               /\ cache'[gv[c].app] =
                    [version |-> fallbackVersion(gv[c].app),
                     fetchedAt |-> gv[c].now, ttl |-> fallbackTTL]]_vars

\* C10: an uninstallApp call for an installed identity that is over has
\* removed the AppRecord, whether or not an uninstaller was found and
\* whatever the uninstaller's exit code.
C10_UninstallRemovesRecord ==
  [][\A r \in Slots :
       (/\ slot[r].op = "app:uninstall"
        /\ slot[r].pc \in {"callUninstall", "uninstalling"}
        /\ storeApps[slot[r].app] # NoRecord
        /\ slot'[r].pc = "done")
       => storeApps'[slot[r].app] = NoRecord]_vars

\* the children spawned for x that run and have not been signalled
AliveChildren(x) ==
  {p \in Handles : procs[p] # NoChild /\ procs[p].app = x /\ procs[p].state = "alive"}

\* C11: a launchApp call for an identity that has no AppRecord, whose record
\* has no executable path, whose executable is not on disk, or that is
\* tracked as running, is refused: no child is spawned, no tracking entry is
\* created or changed and the record (lastLaunched included) stays as it is.
C11_LaunchRefused ==
  [][\A x \in Apps :
       (/\ lastCall'.seq # lastCall.seq
        /\ lastCall'.op = "launchApp"
        /\ lastCall'.app = x
        /\ \/ storeApps[x] = NoRecord
           \/ storeApps[x].executablePath = NoPath
           \/ storeApps[x].executablePath \notin diskFiles
           \/ runningProcesses[x] # NoProc)
       => /\ lastCall'.outcome \in {"NotInstalled", "NoExecutablePath",
                                    "ExecutableMissing", "AlreadyRunning"}
          /\ (storeApps[x] = NoRecord => lastCall'.outcome = "NotInstalled")
          /\ procs' = procs
          /\ spawned' = spawned
          /\ runningProcesses' = runningProcesses
          /\ storeApps' = storeApps]_vars

\* C11 happens: the last launchApp was refused as AlreadyRunning while the
\* child of an earlier launch runs and the record carries that launch's time
C11_Witness ==
  \E x \in Apps :
    /\ lastCall.op = "launchApp"
    /\ lastCall.app = x
    /\ lastCall.outcome = "AlreadyRunning"
    /\ runningProcesses[x] # NoProc
    /\ AliveChildren(x) # {}
    /\ storeApps[x] # NoRecord
    /\ "lastLaunched" \in DOMAIN storeApps[x]
    /\ spawned = 1

\* C12: at any time at most one child launched for an identity is running
\* and not signalled by killApp.
C12_SingleInstance ==
  \A x \in Apps : Cardinality(AliveChildren(x)) <= 1

\* C13: after a killApp call the identity is not tracked as running, whether
\* the signal was sent or process.kill threw; killApp for an untracked
\* identity returns false and changes neither the tracking map nor a child.
C13_KillDropsEntry ==
  [][\A x \in Apps :
       (/\ lastCall'.seq # lastCall.seq
        /\ lastCall'.op = "killApp"
        /\ lastCall'.app = x)
       => /\ runningProcesses'[x] = NoProc
          /\ (runningProcesses[x] = NoProc
                => /\ lastCall'.outcome = "untracked"
                   /\ runningProcesses' = runningProcesses
                   /\ procs' = procs)
          /\ (runningProcesses[x] # NoProc
                => lastCall'.outcome \in {"signalled", "threw"})]_vars

\* C13 happens: process.kill threw for a tracked child that still runs, and
\* the identity is no longer tracked
C13_Witness ==
  \E x \in Apps :
    /\ lastCall.op = "killApp"
    /\ lastCall.app = x
    /\ lastCall.outcome = "threw"
    /\ runningProcesses[x] = NoProc
    /\ AliveChildren(x) # {}

\* C14: when enrichAppData finds a record whose executable is not on disk,
\* the record is deleted and the app reported as not_installed with a null
\* installedVersion and isRunning false; when the executable of the record
\* it found is on disk, the app is reported as installed and the store is
\* left as it is.
C14_SelfHealingRead ==
  [][\A r \in Slots :
       (/\ reads[r].pc = "awaiting"
        /\ reads'[r].pc = "done"
        /\ reads[r].installedApp # NoRecord
        /\ reads[r].installedApp.executablePath # NoPath)
       => IF reads[r].installedApp.executablePath \notin diskFiles
          THEN /\ storeApps'[reads[r].app] = NoRecord
               /\ reads'[r].report.installStatus = "not_installed"
               /\ reads'[r].report.installedVersion = NullVersion
               /\ reads'[r].report.isRunning = FALSE
          ELSE /\ storeApps' = storeApps
               /\ reads'[r].report.installStatus = "installed"
               /\ reads'[r].report.installedVersion =
                    reads[r].installedApp.installedVersion]_vars

\* C14 happens: one read reported the app as installed, then the executable
\* was removed and a second read purged the record
C14_Witness ==
  \E r1, r2 \in Slots :
    /\ reads[r1].pc = "done"
    /\ reads[r2].pc = "done"
    /\ reads[r1].app = reads[r2].app
    /\ reads[r1].report.installStatus = "installed"
    /\ reads[r2].report.installStatus = "not_installed"
    /\ storeApps[reads[r2].app] = NoRecord
    /\ RecordedExe(reads[r2].app) \notin diskFiles

\* p lies inside the directory dir
Inside(dir, p) == Len(p) > Len(dir) /\ SubSeq(p, 1, Len(dir)) = dir

\* C15: when the manual-selection prompt shown after the locator gave up is
\* answered, installApp does not fail: it reports completed and persists a
\* record whose executablePath is null (prompt cancelled) or is the selected
\* file, with the parent directory of that file as installPath.
C15_PromptAnswerRecorded ==
  [][\A r \in Slots :
       (slot[r].pc = "prompt" /\ slot'[r].pc \notin {"prompt", "orphaned"})
       => /\ slot'[r].outcome = "ok"
          /\ slot'[r].statusLog = Append(slot[r].statusLog, "completed")
          /\ storeApps'[slot[r].app] # NoRecord
          /\ \/ storeApps'[slot[r].app].executablePath = NoPath
             \/ /\ storeApps'[slot[r].app].executablePath \in DialogPaths
                /\ storeApps'[slot[r].app].installPath =
                     dirname(storeApps'[slot[r].app].executablePath)]_vars

\* C15 happens: an install ended with completed after the prompt was
\* cancelled, leaving a record with a null executablePath
C15_Witness ==
  \E r \in Slots :
    /\ slot[r].op = "installApp"
    /\ slot[r].pc = "done"
    /\ slot[r].outcome = "ok"
    /\ slot[r].statusLog = <<"preparing", "installing", "completed">>
    /\ storeApps[slot[r].app] # NoRecord
    /\ storeApps[slot[r].app].executablePath = NoPath

\* C16: every AppRecord an install wrote with a non-null executablePath has
\* the parent directory of executablePath as installPath.
C16_InstallPathIsParent ==
  \A x \in Apps :
    (storeApps[x] # NoRecord /\ storeApps[x].executablePath # NoPath)
    => storeApps[x].installPath = dirname(storeApps[x].executablePath)

\* C17: the executable a zip install records lies inside the directory the
\* archive was extracted to.
C17_ZipExecutableInExtractDir ==
  [][\A r \in Slots :
       (slot[r].pc = "zipPolling" /\ slot'[r].outcome = "ok")
       => Inside(extractPath(slot[r].app),
                 storeApps'[slot[r].app].executablePath)]_vars

\* the executables of a listing
ExesOf(files) == {files[i] : i \in {j \in DOMAIN files : isExe(files[j])}}
\* f comes before g in the listing
Before(files, f, g) ==
  \E i, j \in DOMAIN files : i < j /\ files[i] = f /\ files[j] = g

SweepCalled(c) == sweeps[c].pc # "awaiting" /\ sweeps'[c] # sweeps[c]
\* the sweep of caller c ends in this step, by return or by exception
SweepEnds(c) ==
  /\ sweeps'[c] # sweeps[c]
  /\ sweeps'[c].pc = "done"
  /\ sweeps'[c].outcome \in {"ok", "threw"}

\* C19: at most one update sweep is in progress; a checkForUpdates call made
\* during a sweep returns an empty list, resolves nothing and records no
\* timestamp; whenever a sweep ends, by return or by exception, isChecking
\* is false.
C19_OneSweepAtATime ==
  [][/\ Cardinality({c \in Slots : sweeps'[c].pc = "awaiting"}) <= 1
     /\ \A c \in Slots :
          (SweepCalled(c) /\ isChecking)
          => /\ sweeps'[c] = [FreshSweep EXCEPT !.pc = "done",
                                                !.outcome = "discarded"]
             /\ lastUpdateCheck' = lastUpdateCheck
             /\ isChecking' = isChecking
             /\ \A d \in Slots \ {c} : sweeps'[d] = sweeps[d]
     /\ \A c \in Slots : SweepEnds(c) => ~isChecking']_vars

\* C19 happens: after an earlier sweep ended a new one was accepted, and a
\* call made while it is awaiting a release was discarded
C19_Witness ==
  \E c, d \in Slots :
    /\ sweeps[c].pc = "awaiting"
    /\ sweeps[d].outcome = "discarded"
    /\ lastUpdateCheck >= 1
    /\ isChecking

\* the version pairs <<latest, installed>> in which the first is strictly
\* greater, part by part as integers, a missing part counting as 0
NewerPairs == {<<"1.10.0", "1.9.0">>, <<"1.10", "1.9.0">>}

Component(ns, i) == IF i > Len(ns) THEN 0 ELSE ns[i]
\* how the versions written from ns and ms rank: by the first position, up
\* to the longer of the two, where their components differ
Rank(ns, ms) ==
  LET n == IF Len(ns) > Len(ms) THEN Len(ns) ELSE Len(ms)
  IN IF \A i \in 1..n : Component(ns, i) = Component(ms, i) THEN 0
     ELSE IF \E i \in 1..n :
               /\ Component(ns, i) > Component(ms, i)
               /\ \A j \in 1..(i - 1) : Component(ns, j) = Component(ms, j)
          THEN 1 ELSE -1

\* C21: compareVersions(a, b) = -compareVersions(b, a), compareVersions(a, a)
\* = 0, the result is -1, 0 or 1, and missing trailing components count as
\* 0 (1.2 against 1.2.0 gives 0): the result is the rank of the components.
C21_ComparatorLaws ==
  cmp.pc = "compared" =>
    /\ cmp.ab = 0 - cmp.ba
    /\ cmp.aa = 0
    /\ cmp.ab \in {-1, 0, 1}
    /\ cmp.ab = Rank(cmp.a, cmp.b)

\* C21 happens: 1.9 was compared with 1.9.0 and found equal
C21_Witness ==
  /\ cmp.pc = "compared"
  /\ cmp.a = <<1, 9>>
  /\ cmp.b = <<1, 9, 0>>
  /\ cmp.ab = 0

\* C22: a download of a URL has the destination computed from that URL (temp
\* directory + hash of the URL + basename), redirect answers or not, so that
\* two downloads of the same URL have the same destination path.
C22_SameUrlSamePath ==
  \A r \in Slots :
    slot[r].pc = "dlStream"
    => filePath(slot[r]) =
         filePathOf(assetUrl(slot[r].app, slot[r].ext), fileNameOf(slot[r]))

\* the assets of a list, in order, whose lower-cased name ends with ext
Ending(assets, ext) ==
  SelectSeq(assets, LAMBDA a : endsWith(toLowerCase(a), ext))

\* C23: the resolver returns the tag with one leading v stripped, and the
\* first asset ending .exe, else the first ending .msi, else the first .zip
\* whose name contains win, else no asset; for tag v2.3.0 with the assets
\* app-2.3.0.exe and app-2.3.0.zip that is 2.3.0 and the .exe.
C23_VersionAndAsset ==
  rel.pc = "returned" =>
    LET exes == Ending(rel.assets, dotExe)
        msis == Ending(rel.assets, dotMsi)
        winZips == SelectSeq(Ending(rel.assets, dotZip),
                             LAMBDA a : includes(toLowerCase(a), win))
    IN /\ rel.version =
            IF Head(rel.tag) = "v" THEN Tail(rel.tag) ELSE rel.tag
       /\ rel.asset = IF exes # <<>> THEN Head(exes)
                      ELSE IF msis # <<>> THEN Head(msis)
                      ELSE IF winZips # <<>> THEN Head(winZips)
                      ELSE NoAsset
       /\ (rel.tag = <<"v", "2", ".", "3", ".", "0">>
           /\ rel.assets = <<exeAsset, zipAsset>>)
          => /\ rel.version = <<"2", ".", "3", ".", "0">>
             /\ rel.asset = exeAsset

\* C23 happens: a release listing a win zip, an msi and an exe, in this
\* order, under the tag v2.3.0 gave version 2.3.0 and the exe
C23_Witness ==
  /\ rel.pc = "returned"
  /\ rel.tag = <<"v", "2", ".", "3", ".", "0">>
  /\ rel.assets = <<winZipAsset, msiAsset, exeAsset>>
  /\ rel.version = <<"2", ".", "3", ".", "0">>
  /\ rel.asset = exeAsset

\* the events the close callback delivered
CloseEvents(d) == SelectSeq(d.events, LAMBDA e : e.by = "close")

\* C24: a download that resolved has as its last progress event the one of
\* the completion step, with progress 100 and bytesReceived = bytesTotal,
\* delivered exactly once; no progress event follows the resolution; a
\* download that was rejected or cancelled has no event of the completion
\* step.
C24_FinalProgressEvent ==
  [][/\ dl'.promise = "resolved"
        => /\ Len(CloseEvents(dl')) = 1
           /\ dl'.events[Len(dl'.events)].by = "close"
           /\ dl'.events[Len(dl'.events)].progress = 100
           /\ dl'.events[Len(dl'.events)].bytesReceived =
                dl'.events[Len(dl'.events)].bytesTotal
     /\ dl.promise = "resolved" => dl'.events = dl.events
     /\ (dl'.promise = "rejected" \/ dl'.cancelled)
        => CloseEvents(dl') = <<>>]_vars

\* C25: every update sweep that returns, asked for over IPC, started by the
\* interval or made at once when the timer is started, reports every app
\* that was installed when the sweep read the store, whose release did not
\* fail to resolve and whose latest version is strictly greater than the
\* installed one.
C25_EverySweepReportsNewer ==
  [][\A c \in Slots :
       (SweepEnds(c) /\ sweeps'[c].outcome = "ok")
       => LET rep == sweeps'[c].found
              installedApps == IF sweeps[c].pc = "awaiting"
                               THEN sweeps[c].installedApps
                               ELSE storeApps
          IN \A x \in CatalogIds :
               (/\ installedApps[x] # NoRecord
                /\ x \notin sweeps'[c].failed
                /\ <<latest[x], installedApps[x].installedVersion>>
                     \in NewerPairs)
               => \E i \in DOMAIN rep : rep[i].id = x]_vars

\* the two runs of install:status events of a successful install
StatusRuns ==
  {<<"preparing", "installing", "searching", "completed">>,
   <<"preparing", "extracting", "searching", "completed">>}
IsPrefix(a, b) == Len(a) <= Len(b) /\ a = SubSeq(b, 1, Len(a))

\* C26: the status events of an installApp call follow preparing, then
\* installing or extracting, then searching, then completed, with no state
\* skipped or repeated; error may follow any of them but completed and ends
\* the run.
C26_StatusOrder ==
  \A r \in Slots :
    slot[r].op = "installApp"
    => LET log == slot[r].statusLog IN
         \E run \in StatusRuns :
           \/ IsPrefix(log, run)
           \/ /\ Len(log) >= 2
              /\ log[Len(log)] = "error"
              /\ IsPrefix(SubSeq(log, 1, Len(log) - 1), run)
              /\ Len(log) - 1 < Len(run)

\* C27: the locator enters its phases in the order registry, non-recursive,
\* recursive; the non-recursive phase runs exactly when the registry search
\* came to no path, a failed registry search included; the recursive phase
\* runs only if no search path has an .exe at its top level;
\* ExecutableNotFound is thrown only if the registry and every search path,
\* at every depth, gave nothing.
C27_PhasesInOrder ==
  LET ended == loc.pc \in {"returned", "threw"}
      onDisk == \E i \in DOMAIN loc.phases : loc.phases[i] = "nonRecursive"
      deep == \E i \in DOMAIN loc.phases : loc.phases[i] = "recursive"
  IN /\ IsPrefix(loc.phases, <<"registry", "nonRecursive", "recursive">>)
     /\ onDisk => loc.registry \in {"null", "error"}
     /\ (ended /\ loc.registry \in {"null", "error"}) => onDisk
     /\ deep => \A i \in DOMAIN loc.dirs : loc.dirs[i] # "choice"
     /\ (ended /\ loc.result = ExecutableNotFound)
        => /\ loc.registry \in {"null", "error"}
           /\ \A i \in DOMAIN loc.dirs : loc.dirs[i] \in {"missing", "empty"}

\* C27 happens: after a failed registry search and a first search path with
\* nothing at its top level, the recursive phase found the executable
C27_Witness ==
  /\ loc.pc = "returned"
  /\ loc.registry = "error"
  /\ loc.phases = <<"registry", "nonRecursive", "recursive">>
  /\ Len(loc.dirs) >= 2
  /\ loc.result.phase = "recursive"

\* the counts of a polling call: never more than maxAttempts locator calls,
\* one delay between consecutive attempts and none after the last; a return
\* follows the first attempt that found a path; a throw follows exactly
\* maxAttempts failed attempts
PollingCounts ==
  /\ poll.calls <= poll.maxAttempts
  /\ poll.slept = poll.waits * poll.delayMs
  /\ poll.pc = "waiting" => poll.waits = poll.calls
  /\ poll.pc \in {"attempting", "returned", "threw"}
     => poll.waits = poll.calls - 1
  /\ poll.pc = "returned"
     => /\ poll.result \in FoundPaths
        /\ Len(poll.errors) = poll.calls - 1
  /\ poll.pc = "threw"
     => /\ poll.calls = poll.maxAttempts
        /\ Len(poll.errors) = poll.maxAttempts

Range(q) == {q[i] : i \in DOMAIN q}
\* the entry the scan is searching for
Searching(sc) == IF sc.pc = "awaiting" THEN {Head(sc.rest)} ELSE {}

\* C30: an entry of the startup scan whose record names an executable that
\* exists is skipped, with no locator call and with its record as it was; an
\* entry whose record has a missing or null executable has the record
\* deleted and goes on to the search; an entry with no record is searched
\* for; no entry is both detected and skipped, or reported twice; errors
\* stays empty.
C30_ScanTrustsValidRecords ==
  [][/\ \A x \in Range(scan'.skipped) \ Range(scan.skipped) :
          /\ storeApps[x] # NoRecord
          /\ storeApps[x].executablePath \in diskFiles
          /\ storeApps'[x] = storeApps[x]
          /\ x \notin Searching(scan) \cup Searching(scan')
     /\ \A x \in Searching(scan') \ Searching(scan) :
          /\ \/ storeApps[x] = NoRecord
             \/ storeApps[x].executablePath \notin diskFiles
          /\ storeApps'[x] = NoRecord
     /\ \A x \in Range(scan.rest) \ (Range(scan'.rest) \cup Searching(scan)) :
          x \in Range(scan'.skipped)
     /\ LET found == {scan'.detected[i].appId : i \in DOMAIN scan'.detected} IN
          /\ found \cap Range(scan'.skipped) = {}
          /\ Cardinality(found) = Len(scan'.detected)
          /\ Cardinality(Range(scan'.skipped)) = Len(scan'.skipped)
     /\ scan'.errors = <<>>]_vars

\* C30 happens: the scan ended having skipped one entry with a valid record
\* and detected another whose record, naming a missing executable, it had
\* deleted
C30_Witness ==
  /\ scan.pc = "done"
  /\ scan.skipped = <<"app1">>
  /\ Len(scan.detected) = 1
  /\ scan.detected[1].appId = "app2"
  /\ storeApps["app2"] = DetectedRecord(globalExe("app2"))
  /\ storeApps["app1"].installedVersion = "2.0.0"

\* C31: a locator call with the empty hint probes only paths under the
\* machine-wide and per-user program roots (the empty path, which never
\* exists, aside): no path relative to the working directory.
C31_EmptyHintGlobalRootsOnly ==
  walk.installDir = <<>>
  => \A path \in walk.probed : path = <<>> \/ Head(path) = "C:"

\* C32: when the release of the app a sweep is waiting for is answered, by a
\* version or by a failure, and a later entry of the catalog was installed
\* when the sweep read the store, the sweep goes on to resolve the first
\* such entry; a sweep that returns after failures has recorded its
\* timestamp and reports every installed app whose release resolved to a
\* strictly greater version.
C32_FailureDoesNotAbortSweep ==
  [][\A c \in Slots :
       (sweeps[c].pc = "awaiting" /\ sweeps'[c] # sweeps[c])
       => LET installedApps == sweeps[c].installedApps
              later == Tail(sweeps[c].defs)
              next == {i \in DOMAIN later : installedApps[later[i]] # NoRecord}
              rep == sweeps'[c].found
          IN /\ next # {}
                => /\ sweeps'[c].pc = "awaiting"
                   /\ \E i \in next :
                        /\ \A j \in next : i <= j
                        /\ Head(sweeps'[c].defs) = later[i]
             /\ (sweeps'[c].outcome = "ok" /\ sweeps'[c].failed # {})
                => /\ lastUpdateCheck' = lastUpdateCheck + 1
                   /\ \A x \in CatalogIds \ sweeps'[c].failed :
                        (/\ installedApps[x] # NoRecord
                         /\ <<latest[x], installedApps[x].installedVersion>>
                              \in NewerPairs)
                        => \E i \in DOMAIN rep : rep[i].id = x]_vars

\* C32 happens: a sweep returned with an update for the second app after
\* the release of the first had failed to resolve
C32_Witness ==
  \E c \in Slots :
    /\ sweeps[c].pc = "done"
    /\ sweeps[c].outcome = "ok"
    /\ sweeps[c].failed = {"app1"}
    /\ Len(sweeps[c].found) = 1
    /\ sweeps[c].found[1].id = "app2"
    /\ lastUpdateCheck >= 1

C34_EntryRemovedByOwnProcess ==
  [][\A x \in Apps :
       (runningProcesses[x] # NoProc /\ runningProcesses'[x] = NoProc)
       => \/ /\ lastCall'.seq # lastCall.seq
             /\ lastCall'.op = "killApp"
             /\ lastCall'.app = x
          \/ \E p \in Handles :
               /\ procs[p] # NoChild
               /\ procs'[p] = NoChild
               /\ procs[p].app = x
               /\ \/ runningProcesses[x].pid = p
                  \/ runningProcesses[x].pid = 0 /\ procs[p].state = "failed"]_vars

\* ------------------------------------------------------------------------
\* Store writes that can land while an app list read awaits the version
\* ------------------------------------------------------------------------
\* app:select-executable after the dialog resolved with the file selected:
\* the record read now is rewritten with the selected path; nothing is
\* written when no record is stored
SelectExecutable(x, selected) ==
  /\ selected \in diskFiles
  /\ storeApps' = IF storeApps[x] # NoRecord
                  THEN [storeApps EXCEPT ![x].executablePath = selected]
                  ELSE storeApps
  /\ UNCHANGED <<activeInstallations, activeDownloads, tempFiles, slot>>
  /\ UNCHANGED launchVars
  /\ UNCHANGED notLaunchVars

\* installApp from the executable found to the store write: the installer
\* put the executable on disk and setInstalledApp replaces whatever record
\* the identity had
InstallCompletes(x, found) ==
  /\ diskFiles' = diskFiles \cup {found}
  /\ storeApps' = [storeApps EXCEPT ![x] =
       AppRecord("2.0.0", [installPath |-> dirname(found),
                           executablePath |-> found])]
  /\ UNCHANGED <<activeInstallations, activeDownloads, tempFiles, slot>>
  /\ UNCHANGED <<runningProcesses, procs, spawned, lastCall, reads>>
  /\ UNCHANGED notLaunchVars

\* the launcher starts on a store file and a disk that can also hold the
\* file the user selects by hand
InitReadWrites ==
  /\ activeInstallations = {}
  /\ activeDownloads = [x \in Apps |-> NoTask]
  /\ tempFiles = {}
  /\ slot = [r \in Slots |-> FreshSlot]
  /\ storeApps \in [Apps -> UNION {PersistedRecords(x) : x \in Apps}]
  /\ \A x \in Apps : storeApps[x] \in PersistedRecords(x)
  /\ diskFiles \in SUBSET ({RecordedExe(x) : x \in Apps} \cup DialogPaths)
  /\ InitCache
  /\ InitLaunch
  /\ InitLocatorIdle
  /\ InitSweepIdle
  /\ InitOtherIdle
  /\ latest \in [CatalogIds -> {"1.10.0"}]

\* app list reads next to installs and manual selections
NextReadWrites ==
  \/ \E r \in Slots, x \in Apps : EnrichStart(r, x)
  \/ \E r \in Slots : EnrichFinish(r)
  \/ \E x \in Apps, selected \in DialogPaths : SelectExecutable(x, selected)
  \/ \E x \in Apps : InstallCompletes(x, RecordedExe(x))
  \/ \E f \in {RecordedExe(x) : x \in Apps} : ExeDeleted(f)

SpecReadWrites == InitReadWrites /\ [][NextReadWrites]_vars

\* C35: a step deletes the AppRecord of an identity only if the record
\* stored at that moment has no executable path or one that is not on disk.
C35_DeletesOnlyInvalidStored ==
  [][\A x \in Apps :
       (storeApps[x] # NoRecord /\ storeApps'[x] = NoRecord)
       => \/ storeApps[x].executablePath = NoPath
          \/ storeApps[x].executablePath \notin diskFiles]_vars

\* whether a stored record was written by the auto-detect scan
autoDetected(record) ==
  record # NoRecord /\ "autoDetected" \in DOMAIN record /\ record.autoDetected

\* C36: no step replaces a record written by an install (no autoDetected
\* flag) by an auto-detected record.
C36_ScanKeepsInstallRecord ==
  [][\A x \in CatalogIds :
       (storeApps[x] # NoRecord /\ ~autoDetected(storeApps[x]))
       => ~autoDetected(storeApps'[x])]_vars

\* C37: a call whose release lookup failed does not replace a cache entry
\* written with the default TTL, while that entry is still fresh, by the
\* fallback version.
C37_FreshResolvedNotReplaced ==
  [][\A c \in Slots :
       (/\ gv[c].pc = "fetching"
        /\ gv'[c].fetch = "error"
        /\ cache[gv[c].app] # NoEntry
        /\ cache[gv[c].app].ttl = defaultTTL
        /\ now - cache[gv[c].app].fetchedAt < cache[gv[c].app].ttl)
       => cache'[gv[c].app] = cache[gv[c].app]]_vars

\* C38: a stored record whose executablePath is null is not deleted by a
\* step of an app list read (no uninstall is among the steps here): it is
\* still stored, degraded or with a selected executable, after every step.
C38_DegradedRecordStays ==
  [][\A x \in Apps :
       (storeApps[x] # NoRecord /\ storeApps[x].executablePath = NoPath)
       => storeApps'[x] # NoRecord]_vars

\* ------------------------------------------------------------------------
\* app:update: uninstallApp, then the steps of app:install
\* ------------------------------------------------------------------------
\* a faulty handler that goes on to the release lookup whatever uninstallApp
\* did
AfterUninstallGoesOn(s) ==
  IF s.pc = "done" THEN [s EXCEPT !.pc = "resolving", !.outcome = "none"] ELSE s

\* the handler once uninstallApp is over: a rejection goes to the catch
\* block and ends the update, a return leads to the await of
\* getAppReleaseInfo
AfterUninstall(s) ==
  IF s.pc = "done" /\ s.outcome = "ok"
  THEN [s EXCEPT !.pc = "resolving", !.outcome = "none"]
  ELSE s

\* ipcMain.handle('app:update'), up to its first suspension
IpcUpdate(r, x, hasUninstaller) ==
  /\ slot[r].pc \in NewCallPc
  /\ LET s == [FreshSlot EXCEPT !.op = "app:update", !.app = x]
         res == UninstallApp(s, storeApps, hasUninstaller)
     IN /\ storeApps' = res.store
        /\ slot' = [slot EXCEPT ![r] = Norm(AfterUninstall(res.slot))]
  /\ UNCHANGED <<activeInstallations, activeDownloads, tempFiles>>
  /\ UNCHANGED notInstallVars

\* app:update: uninstaller 'close' / 'error', and what the handler does next
UpdateUninstallerClose(r, code) ==
  /\ slot[r].pc = "uninstalling"
  /\ slot[r].op = "app:update"
  /\ LET res == UninstallerClosed(slot[r], storeApps, code) IN
       /\ storeApps' = res.store
       /\ slot' = [slot EXCEPT ![r] = Norm(AfterUninstall(res.slot))]
  /\ UNCHANGED <<activeInstallations, activeDownloads, tempFiles>>
  /\ UNCHANGED notInstallVars

\* the launcher starts on the store file of an earlier session, with the
\* executables an installer can put on disk in place
InitUpdate ==
  /\ activeInstallations = {}
  /\ activeDownloads = [x \in Apps |-> NoTask]
  /\ tempFiles = {}
  /\ slot = [r \in Slots |-> FreshSlot]
  /\ storeApps \in [Apps -> UNION {PersistedRecords(x) : x \in Apps}]
  /\ \A x \in Apps : storeApps[x] \in PersistedRecords(x)
  /\ diskFiles = UNION {LocatorPaths(x) : x \in Apps} \cup DialogPaths
  /\ InitCache
  /\ InitLaunch
  /\ InitLocatorIdle
  /\ InitSweepIdle
  /\ InitOtherIdle
  /\ latest \in [CatalogIds -> {"1.10.0"}]

\* the IPC channel app:update with the managers behind it.  A release
\* without asset makes downloadFile reject on the undefined URL: the update
\* ends as it does when the lookup rejects.
NextUpdate ==
  \/ \E r \in Slots, x \in Apps, hasUninstaller \in BOOLEAN :
       IpcUpdate(r, x, hasUninstaller)
  \/ \E r \in Slots, code \in {0, 1, -1} : UpdateUninstallerClose(r, code)
  \/ \E r \in Slots, err \in {"ResolveFailed", "NoInstaller"} : ResolveFails(r, err)
  \/ \E r \in Slots, e \in AssetExts, v \in ReleaseVersions : ResolveOk(r, e, v)
  \/ \E r \in Slots : DlRedirect(r)
  \/ \E r \in Slots : DlBadStatus(r)
  \/ \E r \in Slots : DlResponseOk(r)
  \/ \E r \in Slots, extractOk \in BOOLEAN : DlFinish(r, extractOk)
  \/ \E r \in Slots : DlError(r)
  \/ \E r \in Slots : DlTimeout(r)
  \/ \E x \in Apps : CancelDownload(x)
  \/ \E r \in Slots : IpcComplete(r)
  \/ \E r \in Slots : InstallerCloseOk(r)
  \/ \E r \in Slots, err \in {"InstallationFailed", "InstallerStartFailed"} :
       InstallerFails(r, err)
  \/ \E r \in Slots : SettleDone(r)
  \/ \E r \in Slots : \E found \in LocatorPaths(slot[r].app) : PollFound(r, found)
  \/ \E r \in Slots : PollNotFound(r)
  \/ \E r \in Slots : PromptCancelled(r)
  \/ \E r \in Slots, selected \in DialogPaths : PromptSelected(r, selected)
  \/ \E r \in Slots : PromptThrows(r)
  \/ \E r \in Slots : \E found \in LocatorPaths(slot[r].app) : ZipPollFound(r, found)
  \/ \E r \in Slots : ZipPollNotFound(r)

SpecUpdate == InitUpdate /\ [][NextUpdate]_vars

\* the ways the uninstall step of an update fails
UninstallFailures == {"NotInstalled", "UninstallFailed"}
\* where an update is once its uninstall step has succeeded and before
\* installApp has written a record
AfterUninstallPc ==
  {"resolving", "dlHung", "orphaned"} \cup DownloadPc \cup InstallPc
\* the statuses uninstallApp emits
UninstallStatuses == {"uninstalling", "completed", "error"}

C40_DownloadSettles ==
  dl.pc \in {"closed", "stopped"} => dl.promise \in {"resolved", "rejected"}

====
